---- MODULE Spec2Model ----
(***************************************************************************)
(* A model of json-to-yaml.py, the Redfish JSON Schema to OpenAPI          *)
(* converter: the recursive rewriter update_object, the two-pass URI and   *)
(* action indexing (check_for_uri_info, check_for_actions,                 *)
(* update_uri_info_with_actions) and the main loop of JSONToYAML.__init__. *)
(*                                                                         *)
(* Python strings are sequences of one-character strings, so that          *)
(* concatenation, slicing, replace, split, substring tests and the         *)
(* regular expressions of the source are computed, not assumed.  A dict    *)
(* is a sequence of key/value pairs in insertion order, as Python          *)
(* iterates it.                                                            *)
(***************************************************************************)
EXTENDS Naturals, Sequences, FiniteSets, TLC

-----------------------------------------------------------------------------
(* Python str operations *)

SetMin(S) == CHOOSE x \in S : \A y \in S : x <= y

SetMax(S) == CHOOSE x \in S : \A y \in S : y <= x

\* the 1-based start positions at which p occurs in s
Occurrences(s, p) ==
    { i \in 1..(Len(s) + 1) :
        /\ i + Len(p) - 1 <= Len(s)
        /\ SubSeq(s, i, i + Len(p) - 1) = p }

\* p in s
str_contains(s, p) == Occurrences(s, p) # {}

\* s.replace( old, new, 1 )
str_replace1(s, old, new) ==
    IF Occurrences(s, old) = {} THEN s
    ELSE LET i == SetMin(Occurrences(s, old))
         IN  SubSeq(s, 1, i - 1) \o new \o SubSeq(s, i + Len(old), Len(s))

\* s.rsplit( sep )[-1]
str_rsplit_last(s, sep) ==
    IF Occurrences(s, sep) = {} THEN s
    ELSE SubSeq(s, SetMax(Occurrences(s, sep)) + Len(sep), Len(s))

\* s.split( sep )[0]
str_split_first(s, sep) ==
    IF Occurrences(s, sep) = {} THEN s
    ELSE SubSeq(s, 1, SetMin(Occurrences(s, sep)) - 1)

\* s[1:]
str_tail(s) == IF s = <<>> THEN <<>> ELSE Tail(s)

\* the characters \w matches, among those the model's strings are made of
WordChars ==
    { "a","b","c","d","e","f","g","h","i","j","k","l","m","n","o","p","q","r",
      "s","t","u","v","w","x","y","z","A","B","C","D","E","F","G","H","I","J",
      "K","L","M","N","O","P","Q","R","S","T","U","V","W","X","Y","Z","0","1",
      "2","3","4","5","6","7","8","9","_" }

\* the character class [\w\d_\.\-]
FileChars == WordChars \cup { ".", "-" }

\* the length of the longest run of characters of class C starting at s[i]
RECURSIVE RunLen(_, _, _)
RunLen(s, i, C) ==
    IF i > Len(s) \/ s[i] \notin C THEN 0 ELSE 1 + RunLen(s, i + 1, C)

NoMatch == <<"NoMatch">>

\* re.match( "^.+\/(.+).json#\/definitions\/(.+)$", s ): <<group 1, group 2>>
\* or NoMatch.  The first .+ is greedy, then group 1 is; the dot before json
\* is unescaped and matches any one character.
ref_match(s) ==
    LET tailpat == <<"j","s","o","n","#","/","d","e","f","i","n","i","t","i","o","n","s","/">>
        Cands == { ij \in (1..Len(s)) \X (1..Len(s)) :
                     /\ ij[1] >= 2
                     /\ s[ij[1]] = "/"
                     /\ ij[2] >= ij[1] + 2
                     /\ ij[2] + Len(tailpat) + 1 <= Len(s)
                     /\ SubSeq(s, ij[2] + 1, ij[2] + Len(tailpat)) = tailpat }
    IN  IF Cands = {} THEN NoMatch
        ELSE LET i == SetMax({ ij[1] : ij \in Cands })
                 j == SetMax({ ij[2] : ij \in { c \in Cands : c[1] = i } })
             IN  << SubSeq(s, i + 1, j - 1),
                    SubSeq(s, j + Len(tailpat) + 1, Len(s)) >>

\* re.search( "\/([\w\d_\.\-]+\.json)", s ): group 1 or NoMatch.  The match is
\* the leftmost; within it the class run is greedy and backs off to the last
\* ".json" it contains.
ref_search(s) ==
    LET dotjson == <<".","j","s","o","n">>
        Ends(i) == { e \in (i + 1)..(i + RunLen(s, i + 1, FileChars)) :
                       /\ e - Len(dotjson) >= i + 1
                       /\ SubSeq(s, e - Len(dotjson) + 1, e) = dotjson }
        Starts == { i \in 1..Len(s) : s[i] = "/" /\ Ends(i) # {} }
    IN  IF Starts = {} THEN NoMatch
        ELSE LET i == SetMin(Starts)
             IN  SubSeq(s, i + 1, SetMax(Ends(i)))

\* re.search( "^(.+)\/\w+\.json", s ): group 1 or NoMatch
members_dir_search(s) ==
    LET dotjson == <<".","j","s","o","n">>
        Cands == { i \in 2..Len(s) :
                     /\ s[i] = "/"
                     /\ \E n \in 1..RunLen(s, i + 1, WordChars) :
                          /\ i + n + Len(dotjson) <= Len(s)
                          /\ SubSeq(s, i + n + 1, i + n + Len(dotjson)) = dotjson }
    IN  IF Cands = {} THEN NoMatch ELSE SubSeq(s, 1, SetMax(Cands) - 1)

-----------------------------------------------------------------------------
(* Parsed JSON: every value carries its Python type *)

Str(s) == [t |-> "str", v |-> s]

Bool(b) == [t |-> "bool", v |-> b]

None == [t |-> "None", v |-> <<>>]

\* a Python list: v is the sequence of its items
List(l) == [t |-> "list", v |-> l]

\* a Python dict: v is the sequence of its key/value pairs in insertion order
Dict(kvs) == [t |-> "dict", v |-> kvs]

KV(k, v) == [k |-> k, v |-> v]

\* the outcome of a call that raised an exception nothing caught
Raised == [t |-> "raised", v |-> <<>>]

IsDict(n) == n.t = "dict"

IsList(n) == n.t = "list"

IsStr(n) == n.t = "str"

\* the sequence f[1], ..., f[Len(f)] as a tuple of values
SeqOf(f) == SubSeq(f, 1, Len(f))

\* the keys of dict d, in iteration order
Keys(d) == SeqOf([i \in 1..Len(d.v) |-> d.v[i].k])

KeyPos(d, k) == { i \in 1..Len(d.v) : d.v[i].k = k }

\* k in d
Has(d, k) == KeyPos(d, k) # {}

\* d[k], where k is in d
Get(d, k) == d.v[CHOOSE i \in KeyPos(d, k) : TRUE].v

\* d[k] = x: an existing key keeps its place, a new key goes last
Put(d, k, x) ==
    IF Has(d, k)
    THEN Dict(SeqOf([i \in 1..Len(d.v) |-> IF d.v[i].k = k THEN KV(k, x) ELSE d.v[i]]))
    ELSE Dict(Append(d.v, KV(k, x)))

\* d.pop( k, None ), for the dict it leaves
Pop(d, k) == Dict(SelectSeq(d.v, LAMBDA kv : kv.k # k))

\* d[new] = d.pop( old ), where old is in d
Rename(d, old, new) == Put(Pop(d, old), new, Get(d, old))

\* n is a dict that has key k (a subscript n[k] that does not raise)
HasKey(n, k) == IsDict(n) /\ Has(n, k)

\* dict equality, which ignores insertion order at every level
RECURSIVE SameValue(_, _)
SameValue(a, b) ==
    IF a.t # b.t THEN FALSE
    ELSE IF IsDict(a)
    THEN /\ Len(a.v) = Len(b.v)
         /\ \A i \in 1..Len(a.v) :
              /\ Has(b, a.v[i].k)
              /\ SameValue(a.v[i].v, Get(b, a.v[i].k))
    ELSE IF IsList(a)
    THEN /\ Len(a.v) = Len(b.v)
         /\ \A i \in 1..Len(a.v) : SameValue(a.v[i], b.v[i])
    ELSE a = b

-----------------------------------------------------------------------------
(* The string literals of the source *)

k_ref == <<"$","r","e","f">>
k_schema == <<"$","s","c","h","e","m","a">>
k_id == <<"$","i","d">>
k_copyright == <<"c","o","p","y","r","i","g","h","t">>
k_x_copyright == <<"x","-","c","o","p","y","r","i","g","h","t">>
k_definitions == <<"d","e","f","i","n","i","t","i","o","n","s">>
k_components == <<"c","o","m","p","o","n","e","n","t","s">>
k_schemas == <<"s","c","h","e","m","a","s">>
k_uris == <<"u","r","i","s">>
k_insertable == <<"i","n","s","e","r","t","a","b","l","e">>
k_updatable == <<"u","p","d","a","t","a","b","l","e">>
k_deletable == <<"d","e","l","e","t","a","b","l","e">>
k_anyOf == <<"a","n","y","O","f">>
k_properties == <<"p","r","o","p","e","r","t","i","e","s">>
k_Members == <<"M","e","m","b","e","r","s">>
k_items == <<"i","t","e","m","s">>
k_Actions == <<"A","c","t","i","o","n","s">>
k_Oem == <<"O","e","m">>
k_type == <<"t","y","p","e">>
k_additionalProperties == <<"a","d","d","i","t","i","o","n","a","l","P","r","o","p","e","r","t","i","e","s">>
k_description == <<"d","e","s","c","r","i","p","t","i","o","n">>
k_longDescription == <<"l","o","n","g","D","e","s","c","r","i","p","t","i","o","n">>
k_parameters == <<"p","a","r","a","m","e","t","e","r","s">>
k_requiredParameter == <<"r","e","q","u","i","r","e","d","P","a","r","a","m","e","t","e","r">>
k_required == <<"r","e","q","u","i","r","e","d">>
k_actionResponse == <<"a","c","t","i","o","n","R","e","s","p","o","n","s","e">>
k_readonly == <<"r","e","a","d","o","n","l","y">>
k_readOnly == <<"r","e","a","d","O","n","l","y">>
k_deprecated == <<"d","e","p","r","e","c","a","t","e","d">>
k_x_deprecatedReason == <<"x","-","d","e","p","r","e","c","a","t","e","d","R","e","a","s","o","n">>
k_patternProperties == <<"p","a","t","t","e","r","n","P","r","o","p","e","r","t","i","e","s">>
k_x_patternProperties == <<"x","-","p","a","t","t","e","r","n","P","r","o","p","e","r","t","i","e","s">>
k_nullable == <<"n","u","l","l","a","b","l","e">>
k_action == <<"a","c","t","i","o","n">>
k_reference == <<"r","e","f","e","r","e","n","c","e">>
k_requestBody == <<"r","e","q","u","e","s","t","B","o","d","y">>
s_null == <<"n","u","l","l">>
s_object == <<"o","b","j","e","c","t">>
s_UNKNOWN == <<"U","N","K","N","O","W","N">>
s_DriveCollection == <<"D","r","i","v","e","C","o","l","l","e","c","t","i","o","n">>
s_Redundancy == <<"R","e","d","u","n","d","a","n","c","y">>
s_RequestBody == <<"R","e","q","u","e","s","t","B","o","d","y">>
s_swordfish == <<"h","t","t","p",":","/","/","r","e","d","f","i","s","h",".","d","m","t","f",".","o","r","g","/","s","c","h","e","m","a","s","/","s","w","o","r","d","f","i","s","h","/","v","1">>
s_json_defs == <<".","j","s","o","n","#","/","d","e","f","i","n","i","t","i","o","n","s","/">>
s_yaml_schemas == <<".","y","a","m","l","#","/","c","o","m","p","o","n","e","n","t","s","/","s","c","h","e","m","a","s","/">>
s_local_defs == <<"#","/","d","e","f","i","n","i","t","i","o","n","s","/">>
s_local_schemas == <<"#","/","c","o","m","p","o","n","e","n","t","s","/","s","c","h","e","m","a","s","/">>
s_idRef_path == <<"/","d","e","f","i","n","i","t","i","o","n","s","/","i","d","R","e","f">>
s_idRef_schema == <<"#","/","c","o","m","p","o","n","e","n","t","s","/","s","c","h","e","m","a","s","/","i","d","R","e","f">>
s_dot_json == <<".","j","s","o","n">>
s_dot_yaml == <<".","y","a","m","l">>
s_slash_Actions == <<"/","A","c","t","i","o","n","s","/">>

ONE_FOR_ONE_REPLACEMENTS ==
    << <<"l","o","n","g","D","e","s","c","r","i","p","t","i","o","n">>, <<"e","n","u","m","D","e","s","c","r","i","p","t","i","o","n","s">>, <<"e","n","u","m","L","o","n","g","D","e","s","c","r","i","p","t","i","o","n","s">>,
       <<"e","n","u","m","D","e","p","r","e","c","a","t","e","d">>, <<"e","n","u","m","V","e","r","s","i","o","n","D","e","p","r","e","c","a","t","e","d">>, <<"e","n","u","m","V","e","r","s","i","o","n","A","d","d","e","d">>,
       <<"u","n","i","t","s">>, <<"r","e","q","u","i","r","e","d","O","n","C","r","e","a","t","e">>, <<"o","w","n","i","n","g","E","n","t","i","t","y">>, <<"a","u","t","o","E","x","p","a","n","d">>,
       <<"r","e","l","e","a","s","e">>, <<"v","e","r","s","i","o","n","D","e","p","r","e","c","a","t","e","d">>, <<"v","e","r","s","i","o","n","A","d","d","e","d">>, <<"f","i","l","t","e","r">>,
       <<"e","x","c","e","r","p","t">>, <<"e","x","c","e","r","p","t","C","o","p","y">>, <<"e","x","c","e","r","p","t","C","o","p","y","O","n","l","y">> >>

REMOVED_TERMS ==
    << <<"i","n","s","e","r","t","a","b","l","e">>, <<"u","p","d","a","t","a","b","l","e">>, <<"d","e","l","e","t","a","b","l","e">>, <<"u","r","i","s">>, <<"p","a","r","a","m","e","t","e","r","s">>,
       <<"r","e","q","u","i","r","e","d","P","a","r","a","m","e","t","e","r">>, <<"a","c","t","i","o","n","R","e","s","p","o","n","s","e">> >>

CONFIG_DEF_ODATA_SCHEMA_LOC == <<"h","t","t","p",":","/","/","r","e","d","f","i","s","h",".","d","m","t","f",".","o","r","g","/","s","c","h","e","m","a","s","/","v","1","/","o","d","a","t","a","-","v","4",".","y","a","m","l">>

-----------------------------------------------------------------------------
(* Subscripts, membership and folds as Python evaluates them *)

\* the subscripts 0 and -1 of a path (no string of characters equals them)
First == <<"[0]">>

Last == <<"[-1]">>

\* n[path[1]][path[2]]...: the value, or Raised when a subscript fails.  A
\* string subscript succeeds on a dict that has the key, First and Last on a
\* non-empty list.
RECURSIVE Dig(_, _)
Dig(n, path) ==
    IF path = <<>> THEN n
    ELSE IF Head(path) \in { First, Last }
    THEN IF IsList(n) /\ n.v # <<>>
         THEN Dig(n.v[IF Head(path) = First THEN 1 ELSE Len(n.v)], Tail(path))
         ELSE Raised
    ELSE IF HasKey(n, Head(path)) THEN Dig(Get(n, Head(path)), Tail(path))
    ELSE Raised

\* whether evaluating "k in n" raises (n is neither dict, list nor str)
InRaises(n) == n.t \notin { "dict", "list", "str" }

\* k in n, for a dict (a key), a list (an item) or a str (a substring)
In(k, n) ==
    CASE IsDict(n) -> Has(n, k)
      [] IsList(n) -> \E i \in 1..Len(n.v) : n.v[i] = Str(k)
      [] IsStr(n)  -> str_contains(n.v, k)
      [] OTHER     -> FALSE

\* for x in s[lo-1:hi]: acc = Op( acc, x ).  The items are taken left to
\* right: the first half of the range is done (its value computed, by
\* comparing it with itself) before the second half starts from it.
RECURSIVE FoldRange(_, _, _, _, _)
FoldRange(Op(_, _), acc, s, lo, hi) ==
    IF lo > hi THEN acc
    ELSE IF lo = hi THEN Op(acc, s[lo])
    ELSE LET mid == (lo + hi) \div 2
             left == FoldRange(Op, acc, s, lo, mid)
         IN  IF left = left THEN FoldRange(Op, left, s, mid + 1, hi) ELSE acc

\* for x in s: acc = Op( acc, x )
Fold(Op(_, _), acc, s) == FoldRange(Op, acc, s, 1, Len(s))

-----------------------------------------------------------------------------
(* is_collection *)

\* True when definition["anyOf"] has two items and the last one's
\* "properties" holds "Members"; any exception on the way gives False
is_collection(definition) ==
    LET anyOf == Dig(definition, << k_anyOf >>)
        props == Dig(definition, << k_anyOf, Last, k_properties >>)
    IN  /\ anyOf # Raised
        /\ IsList(anyOf)
        /\ Len(anyOf.v) = 2
        /\ props # Raised
        /\ ~InRaises(props)
        /\ In(k_Members, props)

-----------------------------------------------------------------------------
(* check_for_uri_info: the body of its loop over json_data["definitions"] *)

\* the entry one definition registers under each of its path templates
uri_entry(insertable, updatable, deletable, def_name, reference, request_body) ==
    Dict(<< KV(k_insertable, insertable),
            KV(k_updatable, updatable),
            KV(k_deletable, deletable),
            KV(k_action, Bool(FALSE)),
            KV(k_actionResponse, None),
            KV(k_type, Str(def_name)),
            KV(k_reference, Str(reference)),
            KV(k_requestBody, Str(request_body)) >>)

\* definition[flag] when present, False otherwise
verb_flag(definition, flag) ==
    IF Has(definition, flag) THEN Get(definition, flag) ELSE Bool(FALSE)

\* the reference and request body of a definition that has "anyOf", as
\* [raised, reference, request_body]
external_reference(def_name, definition) ==
    LET fail == [raised |-> TRUE, reference |-> s_UNKNOWN, request_body |-> s_UNKNOWN]
        items_ref == Dig(definition, << k_anyOf, Last, k_properties, k_Members, k_items, k_ref >>)
        last_ref == Dig(definition, << k_anyOf, Last, k_ref >>)
    IN  IF is_collection(definition)
        THEN LET dir == IF def_name = s_DriveCollection THEN s_swordfish
                        ELSE IF items_ref # Raised /\ IsStr(items_ref)
                             THEN members_dir_search(items_ref.v)
                             ELSE NoMatch
             IN  IF dir = NoMatch \/ items_ref = Raised \/ ~IsStr(items_ref) THEN fail
                 ELSE [raised |-> FALSE,
                       reference |-> dir \o <<"/">> \o def_name \o s_yaml_schemas \o def_name,
                       request_body |-> str_replace1(items_ref.v, s_json_defs, s_yaml_schemas)]
        ELSE IF last_ref = Raised \/ ~IsStr(last_ref) THEN fail
             ELSE LET reference == str_replace1(last_ref.v, s_json_defs, s_yaml_schemas)
                  IN  [raised |-> FALSE, reference |-> reference, request_body |-> reference]

\* the strings of definition["uris"], in order
uri_list(definition) ==
    LET uris == Get(definition, k_uris)
    IN  SeqOf([i \in 1..Len(uris.v) |-> uris.v[i].v])

\* that iteration with the bindings of a definition without "anyOf" skipped
check_for_uri_info_skip(cache, def_name, definition) ==
    IF ~Has(definition, k_uris) \/ ~Has(definition, k_anyOf)
    THEN [raised |-> FALSE, cache |-> cache]
    ELSE LET ext == external_reference(def_name, definition)
             entry == uri_entry(verb_flag(definition, k_insertable),
                                verb_flag(definition, k_updatable),
                                verb_flag(definition, k_deletable),
                                def_name, ext.reference, ext.request_body)
         IN  IF ext.raised THEN [raised |-> TRUE, cache |-> cache]
             ELSE [raised |-> FALSE,
                   cache |-> Fold(LAMBDA c, uri : Put(c, uri, entry), cache,
                                  uri_list(definition))]

\* that iteration with an entry for the first path template only
check_for_uri_info_first(cache, def_name, definition) ==
    IF ~Has(definition, k_uris) THEN [raised |-> FALSE, cache |-> cache]
    ELSE LET ext == IF Has(definition, k_anyOf)
                    THEN external_reference(def_name, definition)
                    ELSE [raised |-> FALSE, reference |-> s_UNKNOWN, request_body |-> s_UNKNOWN]
             entry == uri_entry(verb_flag(definition, k_insertable),
                                verb_flag(definition, k_updatable),
                                verb_flag(definition, k_deletable),
                                def_name, ext.reference, ext.request_body)
         IN  IF ext.raised THEN [raised |-> TRUE, cache |-> cache]
             ELSE [raised |-> FALSE,
                   cache |-> Fold(LAMBDA c, uri : Put(c, uri, entry), cache,
                                  SubSeq(uri_list(definition), 1, 1))]

\* that iteration with the reference of a definition without "anyOf" left
\* as the iteration before it set it
check_for_uri_info_stale(cache, def_name, definition) ==
    IF ~Has(definition, k_uris) THEN [raised |-> FALSE, cache |-> cache]
    ELSE LET last == IF cache.v = <<>> THEN s_UNKNOWN
                     ELSE Get(cache.v[Len(cache.v)].v, k_reference).v
             ext == IF Has(definition, k_anyOf)
                    THEN external_reference(def_name, definition)
                    ELSE [raised |-> FALSE, reference |-> last, request_body |-> last]
             entry == uri_entry(verb_flag(definition, k_insertable),
                                verb_flag(definition, k_updatable),
                                verb_flag(definition, k_deletable),
                                def_name, ext.reference, ext.request_body)
         IN  IF ext.raised THEN [raised |-> TRUE, cache |-> cache]
             ELSE [raised |-> FALSE,
                   cache |-> Fold(LAMBDA c, uri : Put(c, uri, entry), cache,
                                  uri_list(definition))]

\* one iteration of "for def_name, definition in ...items()" on the cache:
\* [raised, cache]
check_for_uri_info_def(cache, def_name, definition) ==
    IF ~Has(definition, k_uris) THEN [raised |-> FALSE, cache |-> cache]
    ELSE LET ext == IF Has(definition, k_anyOf)
                    THEN external_reference(def_name, definition)
                    ELSE [raised |-> FALSE, reference |-> s_UNKNOWN, request_body |-> s_UNKNOWN]
             entry == uri_entry(verb_flag(definition, k_insertable),
                                verb_flag(definition, k_updatable),
                                verb_flag(definition, k_deletable),
                                def_name, ext.reference, ext.request_body)
         IN  IF ext.raised THEN [raised |-> TRUE, cache |-> cache]
             ELSE [raised |-> FALSE,
                   cache |-> Fold(LAMBDA c, uri : Put(c, uri, entry), cache,
                                  uri_list(definition))]

\* the definitions the loop of check_for_uri_info visits, as key/value pairs
definitions_of(json_data) ==
    IF Has(json_data, k_definitions) THEN Get(json_data, k_definitions).v ELSE <<>>

-----------------------------------------------------------------------------
(* list.sort() on strings *)

\* the characters of the model's strings in code point order
CodePoints ==
    << " ","#","$","%",",","-",".","/","0","1","2","3","4","5","6","7","8","9",":",";","?",
       "@","A","B","C","D","E","F","G","H","I","J","K","L","M","N","O","P","Q",
       "R","S","T","U","V","W","X","Y","Z","^","_","a","b","c","d","e","f","g",
       "h","i","j","k","l","m","n","o","p","q","r","s","t","u","v","w","x","y",
       "z","{","}" >>

ord(c) == CHOOSE i \in 1..Len(CodePoints) : CodePoints[i] = c

\* a < b for two Python strings
str_less(a, b) ==
    LET differ == { i \in 1..Len(a) : i <= Len(b) /\ a[i] # b[i] }
    IN  IF differ = {} THEN Len(a) < Len(b)
        ELSE ord(a[SetMin(differ)]) < ord(b[SetMin(differ)])

\* x put in its place in the sorted sequence s (after the items equal to it)
sorted_insert(s, x) ==
    LET before == { i \in 1..Len(s) : ~str_less(x, s[i]) }
        n == IF before = {} THEN 0 ELSE SetMax(before)
    IN  SubSeq(s, 1, n) \o << x >> \o SubSeq(s, n + 1, Len(s))

\* s.append( x ); s.sort(), for a sorted s
append_sort(s, x) == sorted_insert(s, x)

-----------------------------------------------------------------------------
(* check_for_actions *)

\* json_data["definitions"][name] = value
put_definition(json_data, name, value) ==
    Put(json_data, k_definitions, Put(Get(json_data, k_definitions), name, value))

\* the parameters the loop at "Determine which parameters are required"
\* visits before an "in" test raises, and whether one does
params_visited(properties) ==
    LET bad == { i \in 1..Len(properties.v) : InRaises(properties.v[i].v) }
    IN  IF bad = {} THEN properties.v ELSE SubSeq(properties.v, 1, SetMin(bad) - 1)

params_raise(properties) ==
    \E i \in 1..Len(properties.v) : InRaises(properties.v[i].v)

\* the "required" list built from the visited parameters: every parameter
\* whose object holds the key "requiredParameter", sorted
required_list(visited) ==
    Fold(LAMBDA acc, kv : IF In(k_requiredParameter, kv.v)
                          THEN append_sort(acc, kv.k) ELSE acc,
         <<>>, visited)

with_required(body, visited) ==
    IF required_list(visited) = <<>> THEN body
    ELSE Put(body, k_required,
             List(SeqOf([i \in 1..Len(required_list(visited)) |->
                          Str(required_list(visited)[i])])))

\* self.action_cache[yaml_file][action] = entry, creating the file's dict
cache_action(action_cache, yaml_file, action, entry) ==
    LET c1 == IF Has(action_cache, yaml_file) THEN action_cache
              ELSE Put(action_cache, yaml_file, Dict(<<>>))
    IN  Put(c1, yaml_file, Put(Get(c1, yaml_file), action, entry))

\* one iteration of "for action in ...[action_loc]["properties"]" on
\* st = [raised, json_data, action_cache]; an exception leaves what the
\* iteration had already written
check_for_actions_action(st, yaml_file, action_loc, action) ==
    IF st.raised \/ action = k_Oem THEN st
    ELSE
    LET jd0 == st.json_data
        aref == Dig(jd0, << k_definitions, action_loc, k_properties, action, k_ref >>)
        action_def == str_rsplit_last(aref.v, <<"/">>)
        rb == action_def \o s_RequestBody
        body1 == Dict(<< KV(k_type, Str(s_object)),
                         KV(k_additionalProperties, Bool(FALSE)) >>)
        jd1 == put_definition(jd0, rb, body1)
        desc == Dig(jd1, << k_definitions, action_def, k_description >>)
        body2 == Put(body1, k_description, desc)
        jd2 == put_definition(jd1, rb, body2)
        long == Dig(jd2, << k_definitions, action_def, k_longDescription >>)
        body3 == Put(body2, k_longDescription, long)
        jd3 == put_definition(jd2, rb, body3)
        params == Dig(jd3, << k_definitions, action_def, k_parameters >>)
        body4 == Put(body3, k_properties, params)
        jd4 == put_definition(jd3, rb, body4)
        visited == params_visited(params)
        jd5 == put_definition(jd4, rb, with_required(body4, visited))
        action_definition == Get(Get(jd5, k_definitions), action_def)
        reference == Str(s_local_schemas \o rb)
        resp == Dig(action_definition, << k_actionResponse, k_ref >>)
        partial == Dict(<< KV(k_reference, reference) >>)
        full(r) == Dict(<< KV(k_reference, reference), KV(k_actionResponse, r) >>)
        stop(jd, cache) == [raised |-> TRUE, json_data |-> jd, action_cache |-> cache]
    IN  IF aref = Raised \/ ~IsStr(aref) THEN stop(jd0, st.action_cache)
        ELSE IF desc = Raised THEN stop(jd1, st.action_cache)
        ELSE IF long = Raised THEN stop(jd2, st.action_cache)
        ELSE IF params = Raised THEN stop(jd3, st.action_cache)
        ELSE IF ~IsDict(params) THEN stop(jd4, st.action_cache)
        ELSE IF params_raise(params) THEN stop(jd5, st.action_cache)
        ELSE IF In(k_actionResponse, action_definition)
        THEN IF resp = Raised \/ ~IsStr(resp)
             THEN stop(jd5, cache_action(st.action_cache, yaml_file, action, partial))
             ELSE [raised |-> FALSE, json_data |-> jd5,
                   action_cache |->
                     cache_action(st.action_cache, yaml_file, action,
                       full(Str(s_local_schemas \o str_rsplit_last(resp.v, <<"/">>))))]
        ELSE [raised |-> FALSE, json_data |-> jd5,
              action_cache |-> cache_action(st.action_cache, yaml_file, action, full(None))]

\* "properties" of the Actions definition is no dict: the loop raises at the
\* first item that is not "Oem", having written nothing
first_subscript_raises(props) ==
    CASE IsList(props) -> \E i \in 1..Len(props.v) : props.v[i] # Str(k_Oem)
      [] IsStr(props)  -> props.v # <<>>
      [] OTHER         -> TRUE

\* check_for_actions( json_data, filename ): [raised, json_data, action_cache],
\* where raised tells that "Malformed action" was printed; the call itself
\* always returns
check_for_actions(json_data, filename, action_cache) ==
    LET yaml_file == str_replace1(filename, s_dot_json, s_dot_yaml)
        same == [raised |-> FALSE, json_data |-> json_data, action_cache |-> action_cache]
        root == Dig(json_data, << k_ref >>)
        resource_name == str_rsplit_last(root.v, <<"/">>)
        aref == Dig(json_data, << k_definitions, resource_name, k_properties, k_Actions, k_ref >>)
        action_loc == str_rsplit_last(aref.v, <<"/">>)
        props == Dig(json_data, << k_definitions, action_loc, k_properties >>)
    IN  IF root = Raised \/ ~IsStr(root) THEN same
        ELSE IF aref = Raised \/ ~IsStr(aref) THEN same
        ELSE IF props = Raised THEN [same EXCEPT !.raised = TRUE]
        ELSE IF ~IsDict(props) THEN [same EXCEPT !.raised = first_subscript_raises(props)]
        ELSE Fold(LAMBDA st, action :
                    check_for_actions_action(st, yaml_file, action_loc, action),
                  same, Keys(props))

-----------------------------------------------------------------------------
(* update_uri_info_with_actions *)

\* the entry of the action path of one action under one resource path
action_entry(resource_reference, action_info) ==
    LET action_reference == str_split_first(resource_reference, <<"#">>)
        response == Get(action_info, k_actionResponse)
    IN  Dict(<< KV(k_reference, Str(action_reference \o Get(action_info, k_reference).v)),
                KV(k_requestBody, Str(action_reference \o Get(action_info, k_reference).v)),
                KV(k_actionResponse,
                   IF response # None THEN Str(action_reference \o response.v) ELSE None),
                KV(k_insertable, Bool(FALSE)),
                KV(k_updatable, Bool(FALSE)),
                KV(k_deletable, Bool(FALSE)),
                KV(k_action, Bool(TRUE)) >>)

\* uri + "/Actions/" + action, the "#" of the action name kept
action_uri_whole(uri, action) == uri \o s_slash_Actions \o action

\* uri + "/Actions/" + action[1:]
action_uri(uri, action) == uri \o s_slash_Actions \o str_tail(action)

\* ( "/" + action_filename ) in self.uri_cache[uri]["reference"]
reference_matches(action_filename, entry) ==
    In(<<"/">> \o action_filename, Get(entry, k_reference))

\* the three nested loops, on st = [raised, cache] where cache is
\* action_uri_cache
merge_actions(st, uri_kv, actions) ==
    Fold(LAMBDA s, a :
           IF s.raised THEN s
           ELSE IF ~Has(a.v, k_actionResponse) THEN [s EXCEPT !.raised = TRUE]
           ELSE [s EXCEPT !.cache =
                   Put(s.cache, action_uri(uri_kv.k, a.k),
                       action_entry(Get(uri_kv.v, k_reference).v, a.v))],
         st, actions.v)

action_uri_cache(uri_cache, action_cache) ==
    Fold(LAMBDA st, file :
           Fold(LAMBDA s, uri_kv :
                  IF s.raised \/ ~reference_matches(file.k, uri_kv.v) THEN s
                  ELSE merge_actions(s, uri_kv, file.v),
                st, uri_cache.v),
         [raised |-> FALSE, cache |-> Dict(<<>>)], action_cache.v)

\* an assignment of the other dict in place of dict.update
dict_update_replace(d, other) == other

\* dict.update
dict_update(d, other) == Fold(LAMBDA acc, kv : Put(acc, kv.k, kv.v), d, other.v)

\* update_uri_info_with_actions(): [raised, cache], cache the new uri_cache
update_uri_info_with_actions(uri_cache, action_cache) ==
    LET merged == action_uri_cache(uri_cache, action_cache)
    IN  IF merged.raised THEN [raised |-> TRUE, cache |-> uri_cache]
        ELSE [raised |-> FALSE, cache |-> dict_update(uri_cache, merged.cache)]

-----------------------------------------------------------------------------
(* The external reference resolver of update_object *)

\* what a file of the input directory, or a fetched URL, can hold besides a
\* parsed document
Unreadable == [t |-> "unreadable", v |-> <<>>]

Malformed == [t |-> "malformed", v |-> <<>>]

retry_count_max == 20

\* os.path.isfile( self.input_dir + os.path.sep + name )
is_local_file(dir, name) == \E i \in 1..Len(dir) : dir[i].name = name

\* json.load of that file: the parsed value, or Raised (the open and the
\* parse are under no try)
load_local_file(dir, name) ==
    LET content == dir[CHOOSE i \in 1..Len(dir) : dir[i].name = name].content
    IN  IF content \in { Unreadable, Malformed } THEN Raised ELSE content

\* what the web answers for url: [resets, final]: the first resets attempts
\* fail with ECONNRESET, the next one ends as final says, "ok" (final.body is
\* the body parsed), "oserror" (an OSError other than ECONNRESET) or "badbody"
\* (the body does not decode or parse, a ValueError)
web_answer(web, url) ==
    IF \E i \in 1..Len(web) : web[i].url = url
    THEN web[CHOOSE i \in 1..Len(web) : web[i].url = url]
    ELSE [url |-> url, resets |-> 0, final |-> "oserror", body |-> Dict(<<>>)]

\* the attempt made with retry_count failures so far
attempt_outcome(answer, count) ==
    IF count < answer.resets THEN "reset" ELSE answer.final

\* the while loop with an exception once the retries are used up
fetch_loop_strict(answer) ==
    LET ending == { n \in 0..(retry_count_max - 1) :
                      attempt_outcome(answer, n) # "reset" }
    IN  CASE ending = {} -> Raised
          [] ending # {} /\ attempt_outcome(answer, SetMin(ending)) = "ok" ->
               answer.body
          [] ending # {} /\ attempt_outcome(answer, SetMin(ending)) = "badbody" ->
               Raised
          [] OTHER -> Dict(<<>>)

\* the while loop: json_ref_data, or Raised.  The loop runs while
\* retry_count < retry_count_max; an ECONNRESET adds one to retry_count and
\* goes round again, any other outcome sets retry_count to the maximum
\* (json_ref_data stays {} unless the body was parsed) or raises.
fetch_loop(answer) ==
    LET ending == { n \in 0..(retry_count_max - 1) :
                      attempt_outcome(answer, n) # "reset" }
    IN  CASE ending = {} -> Dict(<<>>)
          [] ending # {} /\ attempt_outcome(answer, SetMin(ending)) = "ok" ->
               answer.body
          [] ending # {} /\ attempt_outcome(answer, SetMin(ending)) = "badbody" ->
               Raised
          [] OTHER -> Dict(<<>>)

\* json_ref_data for the reference ref whose file name is name
json_ref_data(ref, name, dir, web) ==
    IF is_local_file(dir, name) THEN load_local_file(dir, name)
    ELSE fetch_loop(web_answer(web, str_split_first(ref, <<"#">>)))

\* json_ref_data.get( "definitions", {} ).get( type_name, None ): the
\* definition, None, or Raised when a .get is applied to what is no dict
ref_definition(data, type_name) ==
    IF ~IsDict(data) THEN Raised
    ELSE IF ~Has(data, k_definitions) THEN None
    ELSE IF ~IsDict(Get(data, k_definitions)) THEN Raised
    ELSE IF ~Has(Get(data, k_definitions), type_name) THEN None
    ELSE Get(Get(data, k_definitions), type_name)

\* "/definitions/idRef" in ref_definition["anyOf"][0]["$ref"], False on any
\* exception
points_to_idRef(definition) ==
    LET first_ref == Dig(definition, << k_anyOf, First, k_ref >>)
    IN  /\ first_ref # Raised
        /\ ~InRaises(first_ref)
        /\ In(s_idRef_path, first_ref)

\* the type name equals the schema name, Redundancy included
is_candidate_link_any(ref) ==
    /\ ref_match(ref) # NoMatch
    /\ ref_match(ref)[1] = ref_match(ref)[2]
    /\ ref_search(ref) # NoMatch

\* the type name equals the schema name and is not Redundancy
is_candidate_link(ref) ==
    /\ ref_match(ref) # NoMatch
    /\ ref_match(ref)[1] = ref_match(ref)[2]
    /\ ref_match(ref)[1] # s_Redundancy
    /\ ref_search(ref) # NoMatch

\* id_ref for an external reference: "link", "value", or "raised"
classify_reference(ref, dir, web) ==
    IF ~is_candidate_link(ref) THEN "value"
    ELSE LET data == json_ref_data(ref, ref_search(ref), dir, web)
             definition == ref_definition(data, str_rsplit_last(ref, <<"/">>))
         IN  IF data = Raised \/ definition = Raised THEN "raised"
             ELSE IF definition = None THEN "value"
             ELSE IF points_to_idRef(definition) THEN "link"
             ELSE "value"

-----------------------------------------------------------------------------
(* update_object: the rewrites of one mapping node, in the order of the code. *)
(* Each takes and gives the dict json_data, or gives Raised.                  *)

\* "term" becomes "x-term"
one_for_one(d) ==
    Fold(LAMBDA acc, r : IF Has(acc, r) THEN Rename(acc, r, <<"x", "-">> \o r) ELSE acc,
         d, ONE_FOR_ONE_REPLACEMENTS)

removals(d) == Fold(LAMBDA acc, r : Pop(acc, r), d, REMOVED_TERMS)

update_readonly(d) ==
    IF Has(d, k_readonly) THEN Rename(d, k_readonly, k_readOnly) ELSE d

update_deprecated(d) ==
    IF Has(d, k_deprecated)
    THEN Put(Rename(d, k_deprecated, k_x_deprecatedReason), k_deprecated, Bool(TRUE))
    ELSE d

\* for pattern in x-patternProperties: drop its "type"
strip_pattern_types(pp) ==
    IF ~IsDict(pp)
    THEN IF pp \in { List(<<>>), Str(<<>>) } THEN pp ELSE Raised
    ELSE IF \E i \in 1..Len(pp.v) :
               \/ InRaises(pp.v[i].v)
               \/ In(k_type, pp.v[i].v) /\ ~IsDict(pp.v[i].v)
         THEN Raised
         ELSE Dict(SeqOf([i \in 1..Len(pp.v) |->
                            IF IsDict(pp.v[i].v) THEN KV(pp.v[i].k, Pop(pp.v[i].v, k_type))
                            ELSE pp.v[i]]))

update_patternProperties(d) ==
    IF ~Has(d, k_patternProperties) THEN d
    ELSE LET moved == Rename(d, k_patternProperties, k_x_patternProperties)
             stripped == strip_pattern_types(Get(moved, k_x_patternProperties))
         IN  IF stripped = Raised THEN Raised
             ELSE Put(moved, k_x_patternProperties, stripped)

\* json_data["type"] = json_data["type"][0]; json_data["nullable"] = True
update_type(d) ==
    IF Has(d, k_type) /\ IsList(Get(d, k_type))
    THEN IF Get(d, k_type).v = <<>> THEN Raised
         ELSE Put(Put(d, k_type, Get(d, k_type).v[1]), k_nullable, Bool(TRUE))
    ELSE d

null_type == Dict(<< KV(k_type, Str(s_null)) >>)

\* the number of items of the list anyOf that are not { "type": "null" }
obj_count(anyOf) == Cardinality({ i \in 1..Len(anyOf.v) : anyOf.v[i] # null_type })

is_nullable(anyOf) == \E i \in 1..Len(anyOf.v) : anyOf.v[i] = null_type

update_anyOf(d) ==
    IF ~Has(d, k_anyOf) THEN d
    ELSE LET anyOf == Get(d, k_anyOf)
         IN  CASE IsList(anyOf) ->
                    IF obj_count(anyOf) # 1 THEN d
                    ELSE IF InRaises(anyOf.v[1]) THEN Raised
                    ELSE IF In(k_ref, anyOf.v[1]) /\ is_nullable(anyOf)
                    THEN IF ~IsDict(anyOf.v[1]) THEN Raised
                         ELSE Put(Pop(Put(d, k_ref, Get(anyOf.v[1], k_ref)), k_anyOf),
                                  k_nullable, Bool(TRUE))
                    ELSE d
               [] IsDict(anyOf) -> IF Len(anyOf.v) = 1 THEN Raised ELSE d
               [] IsStr(anyOf) -> d
               [] OTHER -> Raised

\* json_data[definition] = json_data[definition]["anyOf"][0] for every
\* child that is a collection
update_collections_first(d) ==
    Dict(SeqOf([i \in 1..Len(d.v) |->
                  IF is_collection(d.v[i].v)
                  THEN KV(d.v[i].k, Get(d.v[i].v, k_anyOf).v[1])
                  ELSE d.v[i]]))

\* json_data[definition] = json_data[definition]["anyOf"][1] for every
\* child that is a collection
update_collections(d) ==
    Dict(SeqOf([i \in 1..Len(d.v) |->
                  IF is_collection(d.v[i].v)
                  THEN KV(d.v[i].k, Get(d.v[i].v, k_anyOf).v[2])
                  ELSE d.v[i]]))

\* the new "$ref" of a local reference
local_reference(ref) == str_replace1(ref, s_local_defs, s_local_schemas)

\* the new "$ref" of an external reference classified id_ref or not
external_rewrite(ref, id_ref, odata_schema) ==
    IF id_ref THEN odata_schema \o s_idRef_schema
    ELSE str_replace1(ref, s_json_defs, s_yaml_schemas)

update_ref(d, dir, web) ==
    IF ~Has(d, k_ref) THEN d
    ELSE LET ref == Get(d, k_ref)
         IN  IF ~IsStr(ref) \/ ref.v = <<>> THEN Raised
             ELSE IF ref.v[1] = "#" THEN Put(d, k_ref, Str(local_reference(ref.v)))
             ELSE IF classify_reference(ref.v, dir, web) = "raised" THEN Raised
             ELSE Put(d, k_ref,
                      Str(external_rewrite(ref.v,
                                           classify_reference(ref.v, dir, web) = "link",
                                           CONFIG_DEF_ODATA_SCHEMA_LOC)))

\* everything update_object does to json_data before it descends, step by
\* step in the order of the code; an exception in a step ends the call
rewrite_node(d, dir, web) ==
    LET replaced == one_for_one(d)
        removed == removals(replaced)
        readOnly == update_readonly(removed)
        deprecated == update_deprecated(readOnly)
        patterns == update_patternProperties(deprecated)
        typed == update_type(patterns)
        united == update_anyOf(typed)
        collected == update_collections(united)
        referred == update_ref(collected, dir, web)
    IN  CASE replaced = Raised -> Raised
          [] removed = Raised -> Raised
          [] readOnly = Raised -> Raised
          [] deprecated = Raised -> Raised
          [] patterns = Raised -> Raised
          [] typed = Raised -> Raised
          [] united = Raised -> Raised
          [] collected = Raised -> Raised
          [] OTHER -> referred

\* the list of the items, or Raised when the rewrite of an item raised
list_of(items) ==
    IF \E i \in 1..Len(items) : items[i] = Raised THEN Raised ELSE List(items)

\* the dict of the pairs, or Raised when the rewrite of a value raised
dict_of(kvs) ==
    IF \E i \in 1..Len(kvs) : kvs[i].v = Raised THEN Raised ELSE Dict(kvs)

\* update_object( json_data ): json_data as the call leaves it, or Raised.
\* After the rewrites of the node itself, every value that is a dict, and
\* every dict in a value that is a list, is rewritten by a call of its own.
RECURSIVE update_object(_, _, _)
update_object(json_data, dir, web) ==
    LET own == rewrite_node(json_data, dir, web)
        item(x) == IF IsDict(x) THEN update_object(x, dir, web) ELSE x
        value(x) ==
            CASE IsDict(x) -> update_object(x, dir, web)
              [] IsList(x) -> list_of(SeqOf([i \in 1..Len(x.v) |-> item(x.v[i])]))
              [] OTHER -> x
    IN  CASE own = Raised -> Raised
          [] OTHER -> dict_of(SeqOf([i \in 1..Len(own.v) |->
                                       [k |-> own.v[i].k, v |-> value(own.v[i].v)]]))

-----------------------------------------------------------------------------
(* The input documents the model is run on.  Each is a Redfish-style schema *)
(* file as json.load gives it; the variants cover the shapes the code tests. *)

MaxFiles == 2

U1 == <<"/","r","e","d","f","i","s","h","/","v","1","/","F","o","o","/","{","F","o","o","I","d","}">>

U2 == <<"/","r","e","d","f","i","s","h","/","v","1","/","S","y","s","/","{","S","y","s","I","d","}","/","F","o","o","/","{","F","o","o","I","d","}">>

U3 == <<"/","r","e","d","f","i","s","h","/","v","1","/","F","o","o">>

ref_odata_idRef == <<"h","t","t","p",":","/","/","h","/","v","1","/","o","d","a","t","a","-","v","4",".","j","s","o","n","#","/","d","e","f","i","n","i","t","i","o","n","s","/","i","d","R","e","f">>

RefTo(s) == Dict(<< KV(k_ref, Str(s)) >>)

StrList(s) == List(SeqOf([i \in 1..Len(s) |-> Str(s[i])]))

\* a definition that binds the path templates uris, with the given verb flags
\* (a sequence of key/value pairs) and "anyOf" (a sequence of 0 or 1 pairs)
Bound(anyOf, flags, uris) ==
    Dict(anyOf \o flags \o << KV(k_uris, StrList(uris)), KV(k_description, Str(<<"d">>)) >>)

AllFlags ==
    << KV(k_deletable, Bool(FALSE)), KV(k_insertable, Bool(FALSE)),
       KV(k_updatable, Bool(TRUE)) >>

NoUpdatable == << KV(k_deletable, Bool(TRUE)), KV(k_insertable, Bool(FALSE)) >>

\* the union of an unversioned resource: the link type, then the newest version
SingularAnyOf ==
    << KV(k_anyOf, List(<< RefTo(ref_odata_idRef),
                           RefTo(<<"h","t","t","p",":","/","/","h","/","v","1","/","F","o","o",".","v","1","_","0","_","0",".","j","s","o","n","#","/","d","e","f","i","n","i","t","i","o","n","s","/","F","o","o">>) >>)) >>

\* a union whose last alternative carries no "$ref"
NoRefAnyOf ==
    << KV(k_anyOf, List(<< RefTo(ref_odata_idRef),
                           Dict(<< KV(k_type, Str(s_object)) >>) >>)) >>

\* the union of a collection: the link type, then the object with Members
MembersOf(items) ==
    Dict(<< KV(k_type, Str(s_object)),
            KV(k_properties,
               Dict(<< KV(k_Members,
                          Dict(<< KV(k_type, Str(<<"a","r","r","a","y">>)), KV(k_items, items) >>)) >>)) >>)

CollectionAnyOf(items) ==
    << KV(k_anyOf, List(<< RefTo(ref_odata_idRef), MembersOf(items) >>)) >>

\* a schema file: the root reference and the definitions
Schema(root, definitions) ==
    Dict(<< KV(k_schema, Str(<<"s">>)), KV(k_id, Str(<<"i">>)), KV(k_copyright, Str(<<"c">>)),
            KV(k_ref, Str(s_local_defs \o root)), KV(k_definitions, Dict(definitions)) >>)

File(name, content) == [name |-> name, content |-> content]

\* Foo.json, the unversioned file of the resource Foo
FooFile(d) == File(<<"F","o","o",".","j","s","o","n">>, Schema(<<"F","o","o">>, << KV(<<"F","o","o">>, d) >>))

FooFiles ==
    << FooFile(Bound(SingularAnyOf, AllFlags, << U1, U2 >>)),
       FooFile(Bound(SingularAnyOf, NoUpdatable, << U1 >>)),
       FooFile(Bound(<<>>, AllFlags, << U1, U2 >>)),
       FooFile(Bound(NoRefAnyOf, AllFlags, << U1 >>)) >>

\* the definition of an action
ActionDef(long, parameters, response) ==
    Dict(<< KV(k_description, Str(<<"d">>)) >> \o long \o parameters \o response)

Long == << KV(k_longDescription, Str(<<"l">>)) >>

ResetParameters ==
    << KV(k_parameters,
          Dict(<< KV(<<"R","e","s","e","t","T","y","p","e">>, Dict(<< KV(k_requiredParameter, Bool(TRUE)),
                                           KV(k_type, Str(<<"s","t","r","i","n","g">>)) >>)),
                  KV(<<"D","e","l","a","y">>, Dict(<< KV(k_type, Str(<<"s","t","r","i","n","g">>)) >>)),
                  KV(<<"F","o","r","c","e">>, Dict(<< KV(k_requiredParameter, Bool(FALSE)),
                                       KV(k_type, Str(<<"b","o","o","l","e","a","n">>)) >>)) >>)) >>

NoParameters == << KV(k_parameters, Dict(<<>>)) >>

Response(r) == << KV(k_actionResponse, r) >>

\* Foo.v1_0_0.json, the versioned file: Foo with its Actions #Foo.Reset, Oem
\* and #Foo.Clear
Versioned(reset, clear) ==
    Schema(<<"F","o","o">>,
      << KV(<<"F","o","o">>, Dict(<< KV(k_properties,
                               Dict(<< KV(k_Actions, RefTo(<<"#","/","d","e","f","i","n","i","t","i","o","n","s","/","A","c","t","i","o","n","s">>)) >>)) >>)),
         KV(k_Actions, Dict(<< KV(k_properties,
                                  Dict(<< KV(<<"#","F","o","o",".","R","e","s","e","t">>, RefTo(<<"#","/","d","e","f","i","n","i","t","i","o","n","s","/","R","e","s","e","t">>)),
                                          KV(k_Oem, RefTo(<<"#","/","d","e","f","i","n","i","t","i","o","n","s","/","O","e","m","A","c","t","i","o","n","s">>)),
                                          KV(<<"#","F","o","o",".","C","l","e","a","r">>, RefTo(<<"#","/","d","e","f","i","n","i","t","i","o","n","s","/","C","l","e","a","r">>)) >>)) >>)),
         KV(<<"R","e","s","e","t">>, reset),
         KV(<<"C","l","e","a","r">>, clear) >>)

GoodReset == ActionDef(Long, ResetParameters, Response(RefTo(<<"#","/","d","e","f","i","n","i","t","i","o","n","s","/","R","e","s","e","t","R","e","s","p","o","n","s","e">>)))

GoodClear == ActionDef(Long, NoParameters, <<>>)

VersionedFile(c) == File(<<"F","o","o",".","v","1","_","0","_","0",".","j","s","o","n">>, c)

VersionedFiles ==
    << VersionedFile(Versioned(GoodReset, GoodClear)),
       VersionedFile(Versioned(GoodReset, ActionDef(<<>>, NoParameters, <<>>))),
       VersionedFile(Versioned(ActionDef(Long, <<>>, <<>>), GoodClear)),
       VersionedFile(Versioned(GoodReset,
                               ActionDef(Long, NoParameters,
                                         Response(Dict(<< KV(k_type, Str(s_object)) >>))))),
       VersionedFile(Schema(<<"F","o","o">>,
                            << KV(<<"F","o","o">>, Dict(<< KV(k_type, Str(s_object)) >>)) >>)) >>

\* FooCollection.json, the collection of Foo
CollectionFile(d) ==
    File(<<"F","o","o","C","o","l","l","e","c","t","i","o","n",".","j","s","o","n">>, Schema(<<"F","o","o","C","o","l","l","e","c","t","i","o","n">>, << KV(<<"F","o","o","C","o","l","l","e","c","t","i","o","n">>, d) >>))

CollectionFiles ==
    << CollectionFile(Bound(CollectionAnyOf(RefTo(<<"h","t","t","p",":","/","/","h","/","v","1","/","F","o","o",".","j","s","o","n","#","/","d","e","f","i","n","i","t","i","o","n","s","/","F","o","o">>)),
                            << KV(k_deletable, Bool(FALSE)), KV(k_insertable, Bool(TRUE)),
                               KV(k_updatable, Bool(FALSE)) >>, << U3 >>)),
       CollectionFile(Bound(CollectionAnyOf(Dict(<< KV(k_type, Str(s_object)) >>)),
                            AllFlags, << U3 >>)) >>

\* Two.json: two definitions that bind a common path template
TwoFile ==
    File(<<"T","w","o",".","j","s","o","n">>,
         Schema(<<"A">>,
           << KV(<<"A">>, Bound(<< KV(k_anyOf, List(<< RefTo(ref_odata_idRef),
                     RefTo(<<"h","t","t","p",":","/","/","h","/","v","1","/","A",".","v","1","_","0","_","0",".","j","s","o","n","#","/","d","e","f","i","n","i","t","i","o","n","s","/","A">>) >>)) >>,
                     AllFlags, << U3, U1 >>)),
              KV(<<"B">>, Bound(<< KV(k_anyOf, List(<< RefTo(ref_odata_idRef),
                     RefTo(<<"h","t","t","p",":","/","/","h","/","v","1","/","B",".","v","1","_","0","_","0",".","j","s","o","n","#","/","d","e","f","i","n","i","t","i","o","n","s","/","B">>) >>)) >>,
                     NoUpdatable, << U1 >>)) >>))

\* Bar.json: a value type whose property refers to the type named by ref
BarFile(ref) ==
    File(<<"B","a","r",".","j","s","o","n">>,
         Schema(<<"B","a","r">>,
           << KV(<<"B","a","r">>,
                 Dict(<< KV(k_type, List(<< Str(<<"o","b","j","e","c","t">>), Str(s_null) >>)),
                         KV(k_deprecated, Str(<<"r">>)),
                         KV(k_properties,
                            Dict(<< KV(<<"L","i","n","k">>, Dict(<< KV(k_ref, Str(ref)),
                                                        KV(k_readonly, Bool(TRUE)) >>)) >>)) >>)) >>))

BarFiles ==
    << BarFile(<<"h","t","t","p",":","/","/","h","/","v","1","/","F","o","o",".","j","s","o","n","#","/","d","e","f","i","n","i","t","i","o","n","s","/","F","o","o">>),
       BarFile(<<"h","t","t","p",":","/","/","h","/","v","1","/","B","a","d",".","j","s","o","n","#","/","d","e","f","i","n","i","t","i","o","n","s","/","B","a","d">>),
       BarFile(<<"h","t","t","p",":","/","/","w","/","v","1","/","J","u","n","k",".","j","s","o","n","#","/","d","e","f","i","n","i","t","i","o","n","s","/","J","u","n","k">>) >>

\* a file json.load rejects, and a file that is no schema file
OtherFiles == << File(<<"B","a","d",".","j","s","o","n">>, Malformed), File(<<"n","o","t","e","s",".","t","x","t">>, Unreadable) >>

\* FooCollection.json, a collection no member can be posted to
ReadOnlyCollectionFile ==
    CollectionFile(Bound(CollectionAnyOf(RefTo(<<"h","t","t","p",":","/","/","h","/","v","1","/","F","o","o",".","j","s","o","n","#","/","d","e","f","i","n","i","t","i","o","n","s","/","F","o","o">>)),
                         << KV(k_deletable, Bool(FALSE)), KV(k_insertable, Bool(FALSE)),
                            KV(k_updatable, Bool(FALSE)) >>, << U3 >>))

\* the files an input directory is made of
Library ==
    FooFiles \o VersionedFiles \o CollectionFiles \o << TwoFile >> \o BarFiles
    \o OtherFiles \o << ReadOnlyCollectionFile >>

\* the input directories: up to MaxFiles files of the library (by their
\* numbers) of distinct names, in the order os.listdir gives them
Listings ==
    { l \in UNION { [1..n -> 1..Len(Library)] : n \in 1..MaxFiles } :
        \A i, j \in 1..Len(l) : Library[l[i]].name = Library[l[j]].name => i = j }

\* the files of the listing l
Files(l) == SeqOf([i \in 1..Len(l) |-> Library[l[i]]])

\* the definition a Foo reference resolves to: a link
LinkDefinition ==
    Dict(<< KV(k_anyOf, List(<< RefTo(ref_odata_idRef),
                                RefTo(<<"h","t","t","p",":","/","/","w","/","v","1","/","N","e","t",".","v","1","_","0","_","0",".","j","s","o","n","#","/","d","e","f","i","n","i","t","i","o","n","s","/","N","e","t">>) >>)) >>)

\* what the web serves
WEB ==
    << [url |-> <<"h","t","t","p",":","/","/","w","/","v","1","/","N","e","t",".","j","s","o","n">>, resets |-> 0, final |-> "ok",
        body |-> Schema(<<"N","e","t">>, << KV(<<"N","e","t">>, LinkDefinition) >>)],
       [url |-> <<"h","t","t","p",":","/","/","w","/","v","1","/","R","s","t",".","j","s","o","n">>, resets |-> 2, final |-> "ok",
        body |-> Schema(<<"R","s","t">>, << KV(<<"R","s","t">>, LinkDefinition) >>)],
       [url |-> <<"h","t","t","p",":","/","/","w","/","v","1","/","M","a","n","y",".","j","s","o","n">>, resets |-> retry_count_max, final |-> "ok",
        body |-> Schema(<<"M","a","n","y">>, << KV(<<"M","a","n","y">>, LinkDefinition) >>)],
       [url |-> <<"h","t","t","p",":","/","/","w","/","v","1","/","V","a","l",".","j","s","o","n">>, resets |-> 0, final |-> "ok",
        body |-> Schema(<<"V","a","l">>, << KV(<<"V","a","l">>, Dict(<< KV(k_type, Str(s_object)) >>)) >>)],
       [url |-> <<"h","t","t","p",":","/","/","w","/","v","1","/","R","e","d","u","n","d","a","n","c","y",".","j","s","o","n">>, resets |-> 0, final |-> "ok",
        body |-> Schema(<<"R","e","d","u","n","d","a","n","c","y">>, << KV(<<"R","e","d","u","n","d","a","n","c","y">>, LinkDefinition) >>)],
       [url |-> <<"h","t","t","p",":","/","/","w","/","v","1","/","E","m","p","t","y",".","j","s","o","n">>, resets |-> 0, final |-> "ok",
        body |-> Schema(<<"E","m","p","t","y">>, << KV(<<"O","t","h","e","r">>, LinkDefinition) >>)],
       [url |-> <<"h","t","t","p",":","/","/","w","/","v","1","/","J","u","n","k",".","j","s","o","n">>, resets |-> 0, final |-> "badbody",
        body |-> Dict(<<>>)] >>

-----------------------------------------------------------------------------
(* JSONToYAML.__init__: the run *)

VARIABLES
    input_dir,     \* the input directory: os.listdir( input ), a listing
    overwrite,     \* the overwrite flag
    pc,            \* where the run is
    file,          \* the number of files the loop has taken
    def,           \* the number of definitions check_for_uri_info has visited
    json_data,     \* the document being translated
    uri_cache,     \* self.uri_cache
    action_cache,  \* self.action_cache
    output,        \* the output directory: file name -> document written
    service_doc,   \* the service document written
    passes,        \* the successive results of update_object (rewriter runs)
    base_file,     \* the base document the run was seeded from, parsed
    network,       \* what the network answers to the request of the fetch loop
    retry_count,   \* retry_count of the fetch loop
    attempts,      \* the outcomes of the attempts the fetch loop has made
    ref_data       \* json_ref_data of the fetch loop

vars == << input_dir, overwrite, pc, file, def, json_data, uri_cache, action_cache,
           output, service_doc, passes, base_file, network, retry_count, attempts,
           ref_data >>

\* the state of the fetch loop
fetch == << network, retry_count, attempts, ref_data >>

Digits == { "0","1","2","3","4","5","6","7","8","9" }

\* filename.endswith( ".json" )
ends_with_json(name) ==
    /\ Len(name) >= Len(s_dot_json)
    /\ SubSeq(name, Len(name) - Len(s_dot_json) + 1, Len(name)) = s_dot_json

\* re.search( "v([0-9]+)_([0-9]+)_([0-9]+).json$", name ) is None
is_unversioned(name) ==
    ~ \E i \in 1..Len(name) :
        /\ name[i] = "v"
        /\ \E a \in 1..RunLen(name, i + 1, Digits) :
             /\ i + a + 1 <= Len(name) /\ name[i + a + 1] = "_"
             /\ \E b \in 1..RunLen(name, i + a + 2, Digits) :
                  /\ i + a + b + 2 <= Len(name) /\ name[i + a + b + 2] = "_"
                  /\ \E c \in 1..RunLen(name, i + a + b + 3, Digits) :
                       /\ i + a + b + c + 3 + 4 = Len(name)
                       /\ SubSeq(name, i + a + b + c + 4, Len(name)) = <<"j","s","o","n">>

\* filename.rsplit( ".", 1 )[0] + ".yaml"
out_filename(name) ==
    ( IF Occurrences(name, <<".">>) = {} THEN name
      ELSE SubSeq(name, 1, SetMax(Occurrences(name, <<".">>)) - 1) ) \o s_dot_yaml

\* the top level rewrites done before update_object
strip_top_level(d) ==
    LET a == Pop(Pop(Pop(d, k_schema), k_ref), k_id)
        b == IF Has(a, k_copyright) THEN Rename(a, k_copyright, k_x_copyright) ELSE a
    IN  IF Has(b, k_definitions)
        THEN Put(Pop(b, k_definitions), k_components,
                 Dict(<< KV(k_schemas, Get(b, k_definitions)) >>))
        ELSE b

\* a versioned file the output directory already holds
StaleOutput == Dict(<< KV(<<"F","o","o",".","v","1","_","0","_","0",".","y","a","m","l">>, Dict(<<>>)) >>)

NoDocument == Dict(<<>>)

\* base_file is None
NoBase == None

\* no request is under way
NoRequest == [url |-> <<>>, resets |-> 0, final |-> "ok", body |-> Dict(<<>>)]

\* the fetch loop is not running
FetchIdle ==
    /\ network = NoRequest
    /\ retry_count = 0
    /\ attempts = <<>>
    /\ ref_data = NoDocument

Init ==
    /\ input_dir \in Listings
    /\ overwrite \in BOOLEAN
    /\ pc = "next"
    /\ file = 0
    /\ def = 0
    /\ json_data = NoDocument
    /\ uri_cache = Dict(<<>>)
    /\ action_cache = Dict(<<>>)
    /\ output = StaleOutput
    /\ service_doc = NoDocument
    /\ passes = <<>>
    /\ base_file = NoBase
    /\ FetchIdle

\* for filename in os.listdir( input ): the file is skipped when it is no
\* .json file or cannot be loaded
ReadFile ==
    /\ pc = "next"
    /\ file < Len(input_dir)
    /\ file' = file + 1
    /\ def' = 0
    /\ \E f \in { Library[input_dir[file + 1]] } :
           IF ends_with_json(f.name) /\ f.content \notin { Unreadable, Malformed }
           THEN json_data' = f.content /\ pc' = "uri_info"
           ELSE json_data' = NoDocument /\ pc' = "next"
    /\ UNCHANGED << input_dir, overwrite, uri_cache, action_cache, output, service_doc, passes, base_file, fetch >>

\* check_for_uri_info, one definition of json_data["definitions"] at a time;
\* an exception ends the run
CheckForUriInfo ==
    /\ pc = "uri_info"
    /\ def < Len(definitions_of(json_data))
    /\ \E r \in { check_for_uri_info_def(uri_cache,
                                            definitions_of(json_data)[def + 1].k,
                                            definitions_of(json_data)[def + 1].v) } :
           IF r.raised
           THEN pc' = "aborted" /\ UNCHANGED uri_cache
           ELSE pc' = pc /\ uri_cache' = r.cache
    /\ def' = def + 1
    /\ UNCHANGED << input_dir, overwrite, file, json_data, action_cache, output,
                    service_doc, passes, base_file, fetch >>

\* check_for_uri_info has returned: check_for_actions
CheckForActions ==
    /\ pc = "uri_info"
    /\ def = Len(definitions_of(json_data))
    /\ \E r \in { check_for_actions(json_data, Library[input_dir[file]].name,
                                      action_cache) } :
           /\ json_data' = r.json_data
           /\ action_cache' = r.action_cache
    /\ pc' = "strip"
    /\ UNCHANGED << input_dir, overwrite, file, def, uri_cache, output, service_doc, passes, base_file, fetch >>

StripTopLevel ==
    /\ pc = "strip"
    /\ json_data' = strip_top_level(json_data)
    /\ pc' = "rewrite"
    /\ UNCHANGED << input_dir, overwrite, file, def, uri_cache, action_cache, output,
                    service_doc, passes, base_file, fetch >>

\* self.update_object( json_data ); an exception ends the run
UpdateObject ==
    /\ pc = "rewrite"
    /\ \E r \in { update_object(json_data, Files(input_dir), WEB) } :
           IF r = Raised
           THEN pc' = "aborted" /\ UNCHANGED json_data
           ELSE pc' = "write" /\ json_data' = r
    /\ UNCHANGED << input_dir, overwrite, file, def, uri_cache, action_cache, output,
                    service_doc, passes, base_file, fetch >>

\* the YAML file is written unless it is versioned, exists and overwrite is off
WriteYaml ==
    /\ pc = "write"
    /\ \E name \in { Library[input_dir[file]].name } :
           IF overwrite \/ is_unversioned(name) \/ ~Has(output, out_filename(name))
           THEN output' = Put(output, out_filename(name), json_data)
           ELSE UNCHANGED output
    /\ pc' = "next"
    /\ UNCHANGED << input_dir, overwrite, file, def, json_data, uri_cache, action_cache,
                    service_doc, passes, base_file, fetch >>

\* self.update_uri_info_with_actions() inside the loop over the files
UpdateUriInfoWithActionsEarly ==
    /\ pc = "next"
    /\ \E r \in { update_uri_info_with_actions(uri_cache, action_cache) } :
           IF r.raised
           THEN pc' = "aborted" /\ UNCHANGED uri_cache
           ELSE pc' = "synth" /\ uri_cache' = r.cache
    /\ UNCHANGED << input_dir, overwrite, file, def, json_data, action_cache, output,
                    service_doc, passes, base_file, fetch >>

\* after the last file: self.update_uri_info_with_actions()
UpdateUriInfoWithActions ==
    /\ pc = "next"
    /\ file = Len(input_dir)
    /\ \E r \in { update_uri_info_with_actions(uri_cache, action_cache) } :
           IF r.raised
           THEN pc' = "aborted" /\ UNCHANGED uri_cache
           ELSE pc' = "synth" /\ uri_cache' = r.cache
    /\ UNCHANGED << input_dir, overwrite, file, def, json_data, action_cache, output,
                    service_doc, passes, base_file, fetch >>

-----------------------------------------------------------------------------
(* The service document *)

k_get == <<"g","e","t">>
k_post == <<"p","o","s","t">>
k_patch == <<"p","a","t","c","h">>
k_put == <<"p","u","t">>
k_delete == <<"d","e","l","e","t","e">>
k_paths == <<"p","a","t","h","s">>
k_responses == <<"r","e","s","p","o","n","s","e","s">>
k_content == <<"c","o","n","t","e","n","t">>
k_application_json == <<"a","p","p","l","i","c","a","t","i","o","n","/","j","s","o","n">>
k_schema_key == <<"s","c","h","e","m","a">>
k_default == <<"d","e","f","a","u","l","t">>
k_name == <<"n","a","m","e">>
k_in == <<"i","n">>
k_openapi == <<"o","p","e","n","a","p","i">>
k_info == <<"i","n","f","o">>
s_RedfishError == <<"#","/","c","o","m","p","o","n","e","n","t","s","/","s","c","h","e","m","a","s","/","R","e","d","f","i","s","h","E","r","r","o","r">>
CONFIG_DEF_TASK_REF == <<"h","t","t","p",":","/","/","r","e","d","f","i","s","h",".","d","m","t","f",".","o","r","g","/","s","c","h","e","m","a","s","/","v","1","/","T","a","s","k",".","v","1","_","4","_","2",".","y","a","m","l","#","/","c","o","m","p","o","n","e","n","t","s","/","s","c","h","e","m","a","s","/","T","a","s","k">>
CONFIG_DEF_MESSAGE_REF == <<"h","t","t","p",":","/","/","r","e","d","f","i","s","h",".","d","m","t","f",".","o","r","g","/","s","c","h","e","m","a","s","/","v","1","/","M","e","s","s","a","g","e",".","v","1","_","0","_","8",".","y","a","m","l","#","/","c","o","m","p","o","n","e","n","t","s","/","s","c","h","e","m","a","s","/","M","e","s","s","a","g","e">>

\* the responses allowed, as the strings str( response ) gives
GET_RESPONSES == << <<"2","0","0">> >>
PATCH_RESPONSES == << <<"2","0","0">>, <<"2","0","2">>, <<"2","0","4">> >>
PUT_RESPONSES == << <<"2","0","0">>, <<"2","0","2">>, <<"2","0","4">> >>
CREATE_RESPONSES == << <<"2","0","1">>, <<"2","0","2">>, <<"2","0","4">> >>
ACTION_RESPONSES == << <<"2","0","0">>, <<"2","0","2">>, <<"2","0","4">> >>
DELETE_RESPONSES == << <<"2","0","0">>, <<"2","0","2">>, <<"2","0","4">> >>

\* the truth value Python gives a parsed JSON value
Truthy(n) ==
    CASE n.t = "bool" -> n.v
      [] n.t = "None" -> FALSE
      [] OTHER -> n.v # <<>>

AlNum == WordChars \ { "_" }

\* re.findall( "{[A-Za-z0-9]+}", uri ): the tokens, braces included, in order
uri_parameters(uri) ==
    LET starts == { i \in 1..Len(uri) :
                      /\ uri[i] = "{"
                      /\ RunLen(uri, i + 1, AlNum) >= 1
                      /\ i + RunLen(uri, i + 1, AlNum) + 1 <= Len(uri)
                      /\ uri[i + RunLen(uri, i + 1, AlNum) + 1] = "}" }
        tokens == [i \in starts |-> SubSeq(uri, i, i + RunLen(uri, i + 1, AlNum) + 1)]
        RECURSIVE InOrder(_)
        InOrder(S) == IF S = {} THEN <<>>
                      ELSE << tokens[SetMin(S)] >> \o InOrder(S \ { SetMin(S) })
    IN  InOrder(starts)

\* re.search( "(.+)Id\d?", param_name ): group 1 or NoMatch
resource_of_id(param_name) ==
    LET ends == { i \in 2..Len(param_name) :
                    i + 1 <= Len(param_name) /\ SubSeq(param_name, i, i + 1) = <<"I","d">> }
    IN  IF ends = {} THEN NoMatch ELSE SubSeq(param_name, 1, SetMax(ends) - 1)

\* one parameter object of generate_parameters
generate_parameter(param) ==
    LET param_name == SelectSeq(param, LAMBDA c : c \notin { "{", "}" })
        base == Dict(<< KV(k_name, Str(param_name)),
                        KV(k_in, Str(<<"p","a","t","h">>)),
                        KV(k_required, Bool(TRUE)),
                        KV(k_schema_key, Dict(<< KV(k_type, Str(<<"s","t","r","i","n","g">>)) >>)) >>)
    IN  IF resource_of_id(param_name) = NoMatch THEN base
        ELSE Put(base, k_description,
                 Str(<<"T","h","e"," ","v","a","l","u","e"," ","o","f"," ","t","h","e"," ","I","d"," ","p","r","o","p","e","r","t","y"," ","o","f"," ","t","h","e"," ">> \o resource_of_id(param_name)
                     \o <<" ","r","e","s","o","u","r","c","e">>))

\* generate_parameters( uri ): the list, or None
generate_parameters(uri) ==
    IF uri_parameters(uri) = <<>> THEN None
    ELSE List(SeqOf([i \in 1..Len(uri_parameters(uri)) |->
                       generate_parameter(uri_parameters(uri)[i])]))

content_of(ref) ==
    Dict(<< KV(k_application_json, Dict(<< KV(k_schema_key, Dict(<< KV(k_ref, ref) >>)) >>)) >>)

\* generate_request_body( uri )
generate_request_body(entry) ==
    Dict(<< KV(k_required, Bool(TRUE)), KV(k_content, content_of(Get(entry, k_requestBody))) >>)

Described(text) == Dict(<< KV(k_description, Str(text)) >>)

\* generate_response with the generic error schema as the content of every
\* 200 response of an action
generate_response_generic(uri, entry, http_status) ==
    LET content_resource == content_of(Get(entry, k_reference))
        content_created == content_of(Get(entry, k_requestBody))
        content_task == content_of(Str(CONFIG_DEF_TASK_REF))
        content_error == content_of(Str(s_RedfishError))
    IN  CASE http_status = <<"2","0","0">> ->
               IF ~Truthy(Get(entry, k_action))
               THEN Put(Described(<<"T","h","e"," ","r","e","s","p","o","n","s","e"," ","c","o","n","t","a","i","n","s"," ","a"," ","r","e","p","r","e","s","e","n","t","a","t","i","o","n"," ","o","f"," ","t","h","e"," ">>
                                  \o str_rsplit_last(Get(entry, k_reference).v, <<"/">>)
                                  \o <<" ","r","e","s","o","u","r","c","e">>),
                        k_content, content_resource)
               ELSE Put(Described(<<"T","h","e"," ","r","e","s","p","o","n","s","e"," ","c","o","n","t","a","i","n","s"," ","t","h","e"," ","r","e","s","u","l","t","s"," ","o","f"," ","t","h","e"," ">>
                                  \o str_rsplit_last(uri, <<".">>) \o <<" ","a","c","t","i","o","n">>),
                        k_content,
                        content_error)
          [] http_status = <<"2","0","1">> ->
               Put(Described(<<"A"," ","r","e","s","o","u","r","c","e"," ","o","f"," ","t","y","p","e"," ">>
                             \o str_rsplit_last(Get(entry, k_requestBody).v, <<"/">>)
                             \o <<" ","h","a","s"," ","b","e","e","n"," ","c","r","e","a","t","e","d">>),
                   k_content, content_created)
          [] http_status = <<"2","0","2">> ->
               Put(Described(<<"A","c","c","e","p","t","e","d",";"," ","a"," ","T","a","s","k"," ","h","a","s"," ","b","e","e","n"," ","g","e","n","e","r","a","t","e","d">>), k_content, content_task)
          [] http_status = <<"2","0","4">> -> Described(<<"S","u","c","c","e","s","s",","," ","b","u","t"," ","n","o"," ","r","e","s","p","o","n","s","e"," ","d","a","t","a">>)
          [] OTHER -> Put(Described(<<"E","r","r","o","r"," ","c","o","n","d","i","t","i","o","n">>), k_content, content_error)

\* generate_response( uri, http_status ), http_status given as str( http_status )
generate_response(uri, entry, http_status) ==
    LET content_resource == content_of(Get(entry, k_reference))
        content_created == content_of(Get(entry, k_requestBody))
        content_task == content_of(Str(CONFIG_DEF_TASK_REF))
        content_error == content_of(Str(s_RedfishError))
        content_action_response == content_of(Get(entry, k_actionResponse))
    IN  CASE http_status = <<"2","0","0">> ->
               IF ~Truthy(Get(entry, k_action))
               THEN Put(Described(<<"T","h","e"," ","r","e","s","p","o","n","s","e"," ","c","o","n","t","a","i","n","s"," ","a"," ","r","e","p","r","e","s","e","n","t","a","t","i","o","n"," ","o","f"," ","t","h","e"," ">>
                                  \o str_rsplit_last(Get(entry, k_reference).v, <<"/">>)
                                  \o <<" ","r","e","s","o","u","r","c","e">>),
                        k_content, content_resource)
               ELSE Put(Described(<<"T","h","e"," ","r","e","s","p","o","n","s","e"," ","c","o","n","t","a","i","n","s"," ","t","h","e"," ","r","e","s","u","l","t","s"," ","o","f"," ","t","h","e"," ">>
                                  \o str_rsplit_last(uri, <<".">>) \o <<" ","a","c","t","i","o","n">>),
                        k_content,
                        IF Get(entry, k_actionResponse) # None
                        THEN content_action_response ELSE content_error)
          [] http_status = <<"2","0","1">> ->
               Put(Described(<<"A"," ","r","e","s","o","u","r","c","e"," ","o","f"," ","t","y","p","e"," ">>
                             \o str_rsplit_last(Get(entry, k_requestBody).v, <<"/">>)
                             \o <<" ","h","a","s"," ","b","e","e","n"," ","c","r","e","a","t","e","d">>),
                   k_content, content_created)
          [] http_status = <<"2","0","2">> ->
               Put(Described(<<"A","c","c","e","p","t","e","d",";"," ","a"," ","T","a","s","k"," ","h","a","s"," ","b","e","e","n"," ","g","e","n","e","r","a","t","e","d">>), k_content, content_task)
          [] http_status = <<"2","0","4">> -> Described(<<"S","u","c","c","e","s","s",","," ","b","u","t"," ","n","o"," ","r","e","s","p","o","n","s","e"," ","d","a","t","a">>)
          [] OTHER -> Put(Described(<<"E","r","r","o","r"," ","c","o","n","d","i","t","i","o","n">>), k_content, content_error)

\* generate_operation( uri, responses, add_request_body )
generate_operation(uri, entry, responses, add_request_body) ==
    LET a == IF generate_parameters(uri) # None
             THEN Dict(<< KV(k_parameters, generate_parameters(uri)) >>)
             ELSE Dict(<<>>)
        b == IF add_request_body /\ Has(entry, k_requestBody)
             THEN Put(a, k_requestBody, generate_request_body(entry))
             ELSE a
        listed == Fold(LAMBDA acc, r : Put(acc, r, generate_response(uri, entry, r)),
                       Dict(<<>>), responses)
    IN  Put(b, k_responses, Put(listed, k_default, generate_response(uri, entry, <<"5","0","0">>)))

\* service_doc["paths"][uri] with the patch and put operations of every
\* resource that can be created
path_item_verbs(uri, entry) ==
    IF ~Truthy(Get(entry, k_action))
    THEN LET get == Dict(<< KV(k_get, generate_operation(uri, entry, GET_RESPONSES, FALSE)) >>)
             post == IF Truthy(Get(entry, k_insertable))
                     THEN Put(get, k_post,
                              generate_operation(uri, entry, CREATE_RESPONSES, TRUE))
                     ELSE get
             patch == IF Truthy(Get(entry, k_insertable))
                      THEN Put(Put(post, k_patch,
                                   generate_operation(uri, entry, PATCH_RESPONSES, TRUE)),
                               k_put, generate_operation(uri, entry, PUT_RESPONSES, TRUE))
                      ELSE post
         IN  IF Truthy(Get(entry, k_deletable))
             THEN Put(patch, k_delete,
                      generate_operation(uri, entry, DELETE_RESPONSES, FALSE))
             ELSE patch
    ELSE Dict(<< KV(k_post, generate_operation(uri, entry, ACTION_RESPONSES, TRUE)) >>)

\* service_doc["paths"][uri]
path_item(uri, entry) ==
    IF ~Truthy(Get(entry, k_action))
    THEN LET get == Dict(<< KV(k_get, generate_operation(uri, entry, GET_RESPONSES, FALSE)) >>)
             post == IF Truthy(Get(entry, k_insertable))
                     THEN Put(get, k_post,
                              generate_operation(uri, entry, CREATE_RESPONSES, TRUE))
                     ELSE get
             patch == IF Truthy(Get(entry, k_updatable))
                      THEN Put(Put(post, k_patch,
                                   generate_operation(uri, entry, PATCH_RESPONSES, TRUE)),
                               k_put, generate_operation(uri, entry, PUT_RESPONSES, TRUE))
                      ELSE post
         IN  IF Truthy(Get(entry, k_deletable))
             THEN Put(patch, k_delete,
                      generate_operation(uri, entry, DELETE_RESPONSES, FALSE))
             ELSE patch
    ELSE Dict(<< KV(k_post, generate_operation(uri, entry, ACTION_RESPONSES, TRUE)) >>)

\* service_doc["paths"], built from the URI cache
service_paths(cache) ==
    Dict(SeqOf([i \in 1..Len(cache.v) |->
                  KV(cache.v[i].k, path_item(cache.v[i].k, cache.v[i].v))]))

\* the service document is built and written
Synthesize ==
    /\ pc = "synth"
    /\ service_doc' = Dict(<< KV(k_openapi, Str(<<"3",".","0",".","1">>)),
                              KV(k_paths, service_paths(uri_cache)) >>)
    /\ pc' = "done"
    /\ UNCHANGED << input_dir, overwrite, file, def, json_data, uri_cache, action_cache,
                    output, passes, base_file, fetch >>

Next ==
    \/ ReadFile
    \/ CheckForUriInfo
    \/ CheckForActions
    \/ StripTopLevel
    \/ UpdateObject
    \/ WriteYaml
    \/ UpdateUriInfoWithActions
    \/ Synthesize

Spec == Init /\ [][Next]_vars

-----------------------------------------------------------------------------
(* The rewriter on its own: update_object applied to one mapping node, and   *)
(* again to what it gave.  The nodes are every combination of the keys the  *)
(* rewrites test.                                                           *)

MaxPasses == 2

\* "type": absent, a scalar, a nullable list with "null" last or first
TypeChoices ==
    { <<>>,
      << KV(k_type, Str(<<"s","t","r","i","n","g">>)) >>,
      << KV(k_type, List(<< Str(<<"s","t","r","i","n","g">>), Str(s_null) >>)) >>,
      << KV(k_type, List(<< Str(s_null), Str(<<"s","t","r","i","n","g">>) >>)) >> }

\* "anyOf": absent, a nullable reference with the null alternative last or
\* first, two references, a nullable cross-document reference
AnyOfChoices ==
    { <<>>,
      << KV(k_anyOf, List(<< RefTo(<<"#","/","d","e","f","i","n","i","t","i","o","n","s","/","B","a","r">>), null_type >>)) >>,
      << KV(k_anyOf, List(<< null_type, RefTo(<<"#","/","d","e","f","i","n","i","t","i","o","n","s","/","B","a","r">>) >>)) >>,
      << KV(k_anyOf, List(<< RefTo(<<"#","/","d","e","f","i","n","i","t","i","o","n","s","/","B","a","r">>), RefTo(<<"#","/","d","e","f","i","n","i","t","i","o","n","s","/","B","a","z">>) >>)) >>,
      << KV(k_anyOf, List(<< RefTo(<<"h","t","t","p",":","/","/","h","/","v","1","/","F","o","o",".","j","s","o","n","#","/","d","e","f","i","n","i","t","i","o","n","s","/","F","o","o">>),
                             null_type >>)) >> }

\* the values of "$ref": a local reference, and cross-document references
\* to a link in a local file, to another type of that file, to links and
\* values the web serves (at once, after resets, never), to Redundancy, to a
\* document without the definition, to a host that does not answer, to a
\* malformed local file and to a body that does not parse
RewriteRefs ==
    { <<"#","/","d","e","f","i","n","i","t","i","o","n","s","/","B","a","r">>,
      <<"h","t","t","p",":","/","/","h","/","v","1","/","F","o","o",".","j","s","o","n","#","/","d","e","f","i","n","i","t","i","o","n","s","/","F","o","o">>,
      <<"h","t","t","p",":","/","/","h","/","v","1","/","F","o","o",".","j","s","o","n","#","/","d","e","f","i","n","i","t","i","o","n","s","/","B","a","r">>,
      <<"h","t","t","p",":","/","/","w","/","v","1","/","N","e","t",".","j","s","o","n","#","/","d","e","f","i","n","i","t","i","o","n","s","/","N","e","t">>,
      <<"h","t","t","p",":","/","/","w","/","v","1","/","V","a","l",".","j","s","o","n","#","/","d","e","f","i","n","i","t","i","o","n","s","/","V","a","l">>,
      <<"h","t","t","p",":","/","/","w","/","v","1","/","R","s","t",".","j","s","o","n","#","/","d","e","f","i","n","i","t","i","o","n","s","/","R","s","t">>,
      <<"h","t","t","p",":","/","/","w","/","v","1","/","M","a","n","y",".","j","s","o","n","#","/","d","e","f","i","n","i","t","i","o","n","s","/","M","a","n","y">>,
      <<"h","t","t","p",":","/","/","w","/","v","1","/","R","e","d","u","n","d","a","n","c","y",".","j","s","o","n","#","/","d","e","f","i","n","i","t","i","o","n","s","/","R","e","d","u","n","d","a","n","c","y">>,
      <<"h","t","t","p",":","/","/","w","/","v","1","/","E","m","p","t","y",".","j","s","o","n","#","/","d","e","f","i","n","i","t","i","o","n","s","/","E","m","p","t","y">>,
      <<"h","t","t","p",":","/","/","h","/","v","1","/","G","o","n","e",".","j","s","o","n","#","/","d","e","f","i","n","i","t","i","o","n","s","/","G","o","n","e">>,
      <<"h","t","t","p",":","/","/","h","/","v","1","/","B","a","d",".","j","s","o","n","#","/","d","e","f","i","n","i","t","i","o","n","s","/","B","a","d">>,
      <<"h","t","t","p",":","/","/","w","/","v","1","/","J","u","n","k",".","j","s","o","n","#","/","d","e","f","i","n","i","t","i","o","n","s","/","J","u","n","k">> }

RefChoices == { <<>> } \cup { << KV(k_ref, Str(r)) >> : r \in RewriteRefs }

DeprecatedChoices == { <<>>, << KV(k_deprecated, Str(<<"u","s","e"," ","B","a","r">>)) >> }

PatternChoices ==
    { <<>>,
      << KV(k_patternProperties,
            Dict(<< KV(<<"^","a","$">>, Dict(<< KV(k_type, Str(<<"s","t","r","i","n","g">>)),
                                       KV(k_description, Str(<<"d">>)) >>)) >>)) >> }

\* a collection whose second alternative is itself a two-branch union
NestedCollection ==
    Dict(<< KV(k_anyOf,
               List(<< RefTo(ref_odata_idRef),
                       Dict(<< KV(k_properties, Dict(<< KV(k_Members, Dict(<<>>)) >>)) >>
                            \o CollectionAnyOf(Dict(<< KV(k_type, Str(s_object)) >>))) >>)) >>)

\* the child "Child": absent, a plain object, a collection, a nested collection
ChildChoices ==
    { <<>>,
      << KV(<<"C","h","i","l","d">>, Dict(<< KV(k_readonly, Bool(TRUE)),
                              KV(k_type, List(<< Str(<<"s","t","r","i","n","g">>), Str(s_null) >>)) >>)) >>,
      << KV(<<"C","h","i","l","d">>,
            Dict(CollectionAnyOf(RefTo(<<"h","t","t","p",":","/","/","h","/","v","1","/","F","o","o",".","j","s","o","n","#","/","d","e","f","i","n","i","t","i","o","n","s","/","F","o","o">>)))) >>,
      << KV(<<"C","h","i","l","d">>, NestedCollection) >> }

RewriteInputs ==
    { Dict(t \o a \o r \o d \o p \o c) :
        t \in TypeChoices, a \in AnyOfChoices, r \in RefChoices,
        d \in DeprecatedChoices, p \in PatternChoices, c \in ChildChoices }

\* the input directory of the rewriter's runs: Foo.json, whose Foo is a link,
\* and the malformed Bad.json
RewriteDir == << 1, 16 >>

InitRewrite ==
    /\ input_dir = RewriteDir
    /\ overwrite = FALSE
    /\ pc = "node"
    /\ file = 0
    /\ def = 0
    /\ json_data \in RewriteInputs
    /\ uri_cache = Dict(<<>>)
    /\ action_cache = Dict(<<>>)
    /\ output = StaleOutput
    /\ service_doc = NoDocument
    /\ passes = <<>>
    /\ base_file = NoBase
    /\ FetchIdle

\* self.update_object( json_data )
Rewrite ==
    /\ pc = "node"
    /\ \E r \in { update_object(json_data, Files(input_dir), WEB) } :
           /\ passes' = << r >>
           /\ pc' = IF r = Raised THEN "raised" ELSE "rewritten"
    /\ UNCHANGED << input_dir, overwrite, file, def, json_data, uri_cache, action_cache,
                    output, service_doc, base_file, fetch >>

\* self.update_object( json_data ) once more, on what the last call left
RewriteAgain ==
    /\ pc = "rewritten"
    /\ Len(passes) < MaxPasses
    /\ \E r \in { update_object(passes[Len(passes)], Files(input_dir), WEB) } :
           /\ passes' = Append(passes, r)
           /\ pc' = IF r = Raised THEN "raised" ELSE "rewritten"
    /\ UNCHANGED << input_dir, overwrite, file, def, json_data, uri_cache, action_cache,
                    output, service_doc, base_file, fetch >>

NextRewrite == Rewrite \/ RewriteAgain

SpecRewrite == InitRewrite /\ [][NextRewrite]_vars

-----------------------------------------------------------------------------
(* Properties of the two caches *)

\* the part of a reference before its first "#"
DocumentPart(reference) ==
    IF \E i \in 1..Len(reference) : reference[i] = "#"
    THEN SubSeq(reference, 1, SetMin({ i \in 1..Len(reference) : reference[i] = "#" }) - 1)
    ELSE reference

\* the resource entry names the document: "/" and the file name occur in its
\* canonical reference
NamesDocument(entry, document) ==
    str_contains(Get(entry, k_reference).v, <<"/">> \o document)

\* the key of action A under resource path P
ActionPath(P, A) == P \o <<"/","A","c","t","i","o","n","s","/">> \o SubSeq(A, 2, Len(A))

\* the triples (resource entry, document, action) that pass 2 has to merge
MergeCases ==
    { c \in (1..Len(uri_cache.v)) \X (1..Len(action_cache.v)) \X (1..3) :
        /\ Get(uri_cache.v[c[1]].v, k_action) = Bool(FALSE)
        /\ NamesDocument(uri_cache.v[c[1]].v, action_cache.v[c[2]].k)
        /\ c[3] <= Len(action_cache.v[c[2]].v.v) }

Merged(c) ==
    LET P == uri_cache.v[c[1]]
        A == action_cache.v[c[2]].v.v[c[3]]
        body == DocumentPart(Get(P.v, k_reference).v) \o Get(A.v, k_reference).v
    IN  /\ Has(uri_cache, ActionPath(P.k, A.k))
        /\ LET E == Get(uri_cache, ActionPath(P.k, A.k))
           IN  /\ Get(E, k_action) = Bool(TRUE)
               /\ Get(E, k_insertable) = Bool(FALSE)
               /\ Get(E, k_updatable) = Bool(FALSE)
               /\ Get(E, k_deletable) = Bool(FALSE)
               /\ Get(E, k_reference) = Str(body)
               /\ Get(E, k_requestBody) = Str(body)

\* C1: once pass 2 has run, every action of a document is merged under every
\* resource path whose canonical reference names that document: the key
\* P + "/Actions/" + A[1:] exists, with action true, the three verb flags
\* false, and reference and requestBody the document part of P's reference
\* followed by the action's request-body reference.
C1_ActionMerge ==
    pc \in { "synth", "done" } => \A c \in MergeCases : Merged(c)

\* a finished run that merged two actions under a resource path
C1_Witness ==
    /\ pc = "done"
    /\ \E c, d \in MergeCases : c[1] = d[1] /\ c[2] = d[2] /\ c[3] # d[3]

\* the path templates a definition declares
Templates(definition) ==
    { Get(definition, k_uris).v[i].v : i \in 1..Len(Get(definition, k_uris).v) }

\* check_for_uri_info goes through one more definition, one that declares
\* route bindings, and does not raise
UriInfoStep ==
    /\ pc = "uri_info"
    /\ def < Len(definitions_of(json_data))
    /\ def' = def + 1
    /\ pc' = "uri_info"
    /\ Has(definitions_of(json_data)[def + 1].v, k_uris)

\* C2: a definition that declares N path templates gets exactly N entries,
\* one under each template, all the same entry (reference, request body,
\* verb flags, type name, the type being the definition's name); every
\* other key of the cache is left as it was.
C2_UriCompleteness ==
    [][UriInfoStep =>
         LET d == definitions_of(json_data)[def + 1]
             T == Templates(d.v)
             written == { i \in 1..Len(uri_cache'.v) : uri_cache'.v[i].k \in T }
         IN  /\ Cardinality(written) = Len(Get(d.v, k_uris).v)
             /\ \A u \in T : Has(uri_cache', u)
             /\ \A i, j \in written : uri_cache'.v[i].v = uri_cache'.v[j].v
             /\ \A i \in written : Get(uri_cache'.v[i].v, k_type) = Str(d.k)
             /\ \A i \in 1..Len(uri_cache'.v) :
                  i \notin written =>
                    /\ Has(uri_cache, uri_cache'.v[i].k)
                    /\ Get(uri_cache, uri_cache'.v[i].k) = uri_cache'.v[i].v
             /\ \A i \in 1..Len(uri_cache.v) : Has(uri_cache', uri_cache.v[i].k)]_vars

\* a definition with two path templates has been gone through, with a cache
\* that already held another path
C2_Witness ==
    /\ pc = "uri_info"
    /\ def >= 1
    /\ Has(definitions_of(json_data)[def].v, k_uris)
    /\ Cardinality(Templates(definitions_of(json_data)[def].v)) = 2
    /\ \A u \in Templates(definitions_of(json_data)[def].v) : Has(uri_cache, u)
    /\ Len(uri_cache.v) > 2

-----------------------------------------------------------------------------
(* Properties of the rewriter *)

\* update_object has returned from its first call on json_data
Rewritten == Len(passes) >= 1 /\ passes[1] # Raised

\* "type" is a two-element list that contains "null"
NullableTypeList(n) ==
    /\ Has(n, k_type)
    /\ IsList(Get(n, k_type))
    /\ Len(Get(n, k_type).v) = 2
    /\ \E i \in 1..2 : Get(n, k_type).v[i] = Str(<<"n","u","l","l">>)

\* C3: a node whose "type" is a two-element list containing "null", in
\* either position, is left with the non-null element as its scalar "type"
\* and with "nullable" true.
C3_NullableType ==
    (Rewritten /\ NullableTypeList(json_data)) =>
        /\ \E i \in 1..2 :
             /\ Get(json_data, k_type).v[i] # Str(<<"n","u","l","l">>)
             /\ Get(passes[1], k_type) = Get(json_data, k_type).v[i]
        /\ Has(passes[1], k_nullable)
        /\ Get(passes[1], k_nullable) = Bool(TRUE)

\* the text after the last "/" of a reference
TypeName(R) ==
    SubSeq(R, SetMax({ 0 } \cup { i \in 1..Len(R) : R[i] = "/" }) + 1, Len(R))

\* the file name of the document part, and that name without ".json"
FileName(R) == TypeName(DocumentPart(R))

FileStem(R) ==
    IF Len(FileName(R)) >= 5
         /\ SubSeq(FileName(R), Len(FileName(R)) - 4, Len(FileName(R))) = <<".","j","s","o","n">>
    THEN SubSeq(FileName(R), 1, Len(FileName(R)) - 5)
    ELSE FileName(R)

\* the referenced document is a file of the input directory
IsLocal(R) == \E i \in 1..Len(input_dir) : Library[input_dir[i]].name = FileName(R)

\* the web serves the document within the retries
IsServed(R) ==
    \E i \in 1..Len(WEB) :
        /\ WEB[i].url = DocumentPart(R)
        /\ WEB[i].final = "ok"
        /\ WEB[i].resets < retry_count_max

\* the referenced document, where it was obtained
Document(R) ==
    IF IsLocal(R)
    THEN Library[CHOOSE f \in { input_dir[i] : i \in 1..Len(input_dir) } :
                   Library[f].name = FileName(R)].content
    ELSE WEB[CHOOSE i \in 1..Len(WEB) : WEB[i].url = DocumentPart(R)].body

\* the conditions under which a cross-document reference is a link
LinkConditions(R) ==
    /\ TypeName(R) = FileStem(R)
    /\ TypeName(R) # <<"R","e","d","u","n","d","a","n","c","y">>
    /\ IsLocal(R) \/ IsServed(R)
    /\ HasKey(Document(R), k_definitions)
    /\ HasKey(Get(Document(R), k_definitions), TypeName(R))
    /\ LET definition == Get(Get(Document(R), k_definitions), TypeName(R))
       IN  /\ HasKey(definition, k_anyOf)
           /\ IsList(Get(definition, k_anyOf))
           /\ Get(definition, k_anyOf).v # <<>>
           /\ HasKey(Get(definition, k_anyOf).v[1], k_ref)
           /\ IsStr(Get(Get(definition, k_anyOf).v[1], k_ref))
           /\ str_contains(Get(Get(definition, k_anyOf).v[1], k_ref).v,
                           <<"/","d","e","f","i","n","i","t","i","o","n","s","/","i","d","R","e","f">>)

\* the target form of a reference
TargetForm(R) ==
    IF R[1] = "#" THEN str_replace1(R, <<"#","/","d","e","f","i","n","i","t","i","o","n","s","/">>, <<"#","/","c","o","m","p","o","n","e","n","t","s","/","s","c","h","e","m","a","s","/">>)
    ELSE IF LinkConditions(R) THEN CONFIG_DEF_ODATA_SCHEMA_LOC \o <<"#","/","c","o","m","p","o","n","e","n","t","s","/","s","c","h","e","m","a","s","/","i","d","R","e","f">>
    ELSE str_replace1(R, <<".","j","s","o","n","#","/","d","e","f","i","n","i","t","i","o","n","s","/">>, <<".","y","a","m","l","#","/","c","o","m","p","o","n","e","n","t","s","/","s","c","h","e","m","a","s","/">>)

\* the alternatives of "anyOf" that carry a "$ref"
ReferenceAlternatives(n) ==
    { i \in 1..Len(Get(n, k_anyOf).v) : HasKey(Get(n, k_anyOf).v[i], k_ref) }

\* "anyOf" is a list in which exactly one alternative carries a "$ref" and
\* another is { "type": "null" }
NullableReference(n) ==
    /\ Has(n, k_anyOf)
    /\ IsList(Get(n, k_anyOf))
    /\ Cardinality(ReferenceAlternatives(n)) = 1
    /\ \E i \in 1..Len(Get(n, k_anyOf).v) :
         Get(n, k_anyOf).v[i] = Dict(<< KV(k_type, Str(<<"n","u","l","l">>)) >>)

\* C4: a node whose "anyOf" has exactly one alternative with a "$ref" and
\* at least one { "type": "null" } alternative, wherever the reference
\* stands in the list, loses "anyOf", gets that reference in target form as
\* its "$ref", and gets "nullable" true.
C4_UnionCollapse ==
    (Rewritten /\ NullableReference(json_data)) =>
        /\ ~Has(passes[1], k_anyOf)
        /\ Has(passes[1], k_ref)
        /\ \A i \in ReferenceAlternatives(json_data) :
             Get(passes[1], k_ref) =
               Str(TargetForm(Get(Get(json_data, k_anyOf).v[i], k_ref).v))
        /\ Has(passes[1], k_nullable)
        /\ Get(passes[1], k_nullable) = Bool(TRUE)

\* C5: update_object applied to what update_object gave changes nothing.
C5_Idempotent ==
    Len(passes) >= 2 => SameValue(passes[1], passes[2])

\* the node has a cross-document "$ref", which no union collapse replaces
\* before the reference is rewritten
CrossDocument(n) ==
    /\ Has(n, k_ref)
    /\ Get(n, k_ref).v[1] # "#"
    /\ ~Has(n, k_anyOf) \/ Has(passes[1], k_anyOf)

\* C6: a cross-document "$ref" R becomes the shared idRef location exactly
\* when its type name is its file stem and not Redundancy, the document
\* was obtained (local file or fetch), holds the definition, and that
\* definition's first anyOf alternative has a "$ref" containing
\* "/definitions/idRef"; otherwise R changes only by its first
\* ".json#/definitions/" becoming ".yaml#/components/schemas/".
C6_LinkRewrite ==
    (Rewritten /\ CrossDocument(json_data)) =>
        LET R == Get(json_data, k_ref).v
            new == Get(passes[1], k_ref)
        IN  /\ new = Str(CONFIG_DEF_ODATA_SCHEMA_LOC \o <<"#","/","c","o","m","p","o","n","e","n","t","s","/","s","c","h","e","m","a","s","/","i","d","R","e","f">>)
                 <=> LinkConditions(R)
            /\ ~LinkConditions(R) =>
                 new = Str(str_replace1(R, <<".","j","s","o","n","#","/","d","e","f","i","n","i","t","i","o","n","s","/">>,
                                        <<".","y","a","m","l","#","/","c","o","m","p","o","n","e","n","t","s","/","s","c","h","e","m","a","s","/">>))

\* a reference to a link that the web serves after resets has been rewritten
C6_Witness ==
    /\ Rewritten
    /\ CrossDocument(json_data)
    /\ ~IsLocal(Get(json_data, k_ref).v)
    /\ LinkConditions(Get(json_data, k_ref).v)
    /\ \E i \in 1..Len(WEB) :
         WEB[i].url = DocumentPart(Get(json_data, k_ref).v) /\ WEB[i].resets > 0
    /\ Get(passes[1], k_ref) = Str(CONFIG_DEF_ODATA_SCHEMA_LOC \o <<"#","/","c","o","m","p","o","n","e","n","t","s","/","s","c","h","e","m","a","s","/","i","d","R","e","f">>)

\* the structural collection marker: a two-element "anyOf" whose last
\* element's "properties" contains "Members"
CollectionMarker(child) ==
    /\ HasKey(child, k_anyOf)
    /\ IsList(Get(child, k_anyOf))
    /\ Len(Get(child, k_anyOf).v) = 2
    /\ HasKey(Get(child, k_anyOf).v[2], k_properties)
    /\ HasKey(Get(Get(child, k_anyOf).v[2], k_properties), k_Members)

\* the keys of the node that no rewrite of the node renames, removes or sets
OwnKeys ==
    { ONE_FOR_ONE_REPLACEMENTS[i] : i \in 1..Len(ONE_FOR_ONE_REPLACEMENTS) }
      \cup { REMOVED_TERMS[i] : i \in 1..Len(REMOVED_TERMS) }
      \cup { k_readonly, k_deprecated, k_patternProperties, k_type, k_anyOf, k_ref,
             k_nullable }

\* the children of the node that carry the collection marker
CollectionChildren(n) ==
    { i \in 1..Len(n.v) : n.v[i].k \notin OwnKeys /\ CollectionMarker(n.v[i].v) }

\* the child with that key, after the call
ChildAfter(i) == Get(passes[1], json_data.v[i].k)

\* the second element of the child's "anyOf"
SecondBranch(i) == Get(json_data.v[i].v, k_anyOf).v[2]

CollapsesUnion(n) ==
    /\ Has(n, k_anyOf)
    /\ HasKey(Get(n, k_anyOf).v[1], k_ref)
    /\ \E i \in 1..Len(Get(n, k_anyOf).v) :
         Get(n, k_anyOf).v[i] = Dict(<< KV(k_type, Str(<<"n","u","l","l">>)) >>)
    /\ Cardinality({ i \in 1..Len(Get(n, k_anyOf).v) :
                       Get(n, k_anyOf).v[i] # Dict(<< KV(k_type, Str(<<"n","u","l","l">>)) >>) }) = 1

\* the resolution of a candidate reference fails: the document is no local
\* file, and the fetch uses up its retries, or ends on a failure that is no
\* connection reset, or gives a document without the definition
ResolutionFails(R) ==
    /\ TypeName(R) = FileStem(R)
    /\ TypeName(R) # <<"R","e","d","u","n","d","a","n","c","y">>
    /\ ~IsLocal(R)
    /\ \/ \E i \in 1..Len(WEB) :
            /\ WEB[i].url = DocumentPart(R)
            /\ WEB[i].resets >= retry_count_max
       \/ \E i \in 1..Len(WEB) :
            /\ WEB[i].url = DocumentPart(R)
            /\ WEB[i].resets < retry_count_max
            /\ WEB[i].final = "oserror"
       \/ \A i \in 1..Len(WEB) : WEB[i].url # DocumentPart(R)
       \/ /\ IsServed(R)
          /\ HasKey(Document(R), k_definitions)
          /\ ~HasKey(Get(Document(R), k_definitions), TypeName(R))

\* the node has a cross-document "$ref" whose resolution fails
FailedResolution(n) ==
    /\ Has(n, k_ref)
    /\ Get(n, k_ref).v[1] # "#"
    /\ ~CollapsesUnion(n)
    /\ ResolutionFails(Get(n, k_ref).v)

\* C14: when the resolution of a candidate cross-document reference fails,
\* the call does not raise, the reference is rewritten by the plain
\* substitution of ".yaml#/components/schemas/" for ".json#/definitions/",
\* and the children of the node are rewritten as they are otherwise.
C14_NonLinkDefault ==
    (Len(passes) >= 1 /\ FailedResolution(json_data)) =>
        /\ passes[1] # Raised
        /\ Get(passes[1], k_ref) =
             Str(str_replace1(Get(json_data, k_ref).v, <<".","j","s","o","n","#","/","d","e","f","i","n","i","t","i","o","n","s","/">>,
                              <<".","y","a","m","l","#","/","c","o","m","p","o","n","e","n","t","s","/","s","c","h","e","m","a","s","/">>))
        /\ \A i \in 1..Len(json_data.v) :
             (json_data.v[i].k \notin OwnKeys /\ IsDict(json_data.v[i].v)) =>
                Get(passes[1], json_data.v[i].k) =
                  update_object(IF CollectionMarker(json_data.v[i].v)
                                THEN Get(json_data.v[i].v, k_anyOf).v[2]
                                ELSE json_data.v[i].v,
                                Files(input_dir), WEB)

\* a node whose reference used up the retries of the fetch has been
\* rewritten, its child included
C14_Witness ==
    /\ Len(passes) >= 1
    /\ FailedResolution(json_data)
    /\ \E i \in 1..Len(WEB) :
         /\ WEB[i].url = DocumentPart(Get(json_data, k_ref).v)
         /\ WEB[i].resets >= retry_count_max
    /\ passes[1] # Raised
    /\ Has(json_data, <<"C","h","i","l","d">>)
    /\ HasKey(Get(json_data, <<"C","h","i","l","d">>), k_readonly)
    /\ HasKey(Get(passes[1], <<"C","h","i","l","d">>), k_readOnly)

-----------------------------------------------------------------------------
(* Properties of the error handling *)

\* C8: no condition is fatal: whatever the input documents and whatever the
\* resolver meets, the run never enters an aborted state.
C8_NeverAborts == pc # "aborted"

\* check_for_uri_info goes through one more definition, one that declares
\* route bindings and has no "anyOf"
ShapelessStep ==
    /\ pc = "uri_info"
    /\ def < Len(definitions_of(json_data))
    /\ def' = def + 1
    /\ Has(definitions_of(json_data)[def + 1].v, k_uris)
    /\ ~Has(definitions_of(json_data)[def + 1].v, k_anyOf)

\* C9 as stated: the route bindings of a definition without "anyOf" are
\* skipped: no entry is created or changed for any of its path templates.
C9_BindingsSkipped ==
    [][ShapelessStep =>
         \A u \in Templates(definitions_of(json_data)[def + 1].v) :
             /\ Has(uri_cache', u) <=> Has(uri_cache, u)
             /\ Has(uri_cache, u) => Get(uri_cache', u) = Get(uri_cache, u)]_vars

\* the verb flag of a definition, false where it has none
FlagOf(definition, flag) ==
    IF Has(definition, flag) THEN Get(definition, flag) ELSE Bool(FALSE)

\* C9 as amended: the route bindings of a definition without "anyOf" are
\* not skipped: the call goes on, and every path template of the definition
\* gets an entry whose reference and requestBody are "UNKNOWN", with the
\* definition's name as type and its verb flags.
C9_UnknownReference ==
    [][ShapelessStep =>
         /\ pc' = "uri_info"
         /\ \A u \in Templates(definitions_of(json_data)[def + 1].v) :
              /\ Has(uri_cache', u)
              /\ Get(Get(uri_cache', u), k_reference) = Str(<<"U","N","K","N","O","W","N">>)
              /\ Get(Get(uri_cache', u), k_requestBody) = Str(<<"U","N","K","N","O","W","N">>)
              /\ Get(Get(uri_cache', u), k_action) = Bool(FALSE)
              /\ Get(Get(uri_cache', u), k_type) = Str(definitions_of(json_data)[def + 1].k)
              /\ \A flag \in { k_insertable, k_updatable, k_deletable } :
                   Get(Get(uri_cache', u), flag) =
                     FlagOf(definitions_of(json_data)[def + 1].v, flag)]_vars

\* a definition with route bindings and no "anyOf" has been gone through,
\* and its two path templates are in the cache with the reference "UNKNOWN"
C9_Witness ==
    /\ pc = "uri_info"
    /\ def >= 1
    /\ Has(definitions_of(json_data)[def].v, k_uris)
    /\ ~Has(definitions_of(json_data)[def].v, k_anyOf)
    /\ Cardinality(Templates(definitions_of(json_data)[def].v)) = 2
    /\ \A u \in Templates(definitions_of(json_data)[def].v) :
         /\ Has(uri_cache, u)
         /\ Get(Get(uri_cache, u), k_reference) = Str(<<"U","N","K","N","O","W","N">>)

\* check_for_actions runs on a document and fails on one of its actions
FailedExtraction ==
    /\ pc = "uri_info"
    /\ pc' = "strip"
    /\ check_for_actions(json_data, Library[input_dir[file]].name, action_cache).raised

\* C10: when the extraction fails on one action of a document, the call
\* leaves no entry in the action cache that it added, the actions gone
\* through before the failing one included.
C10_AllDiscarded ==
    [][FailedExtraction => action_cache' = action_cache]_vars

-----------------------------------------------------------------------------
(* Properties of the service document *)

\* the operations of the service document under a path
Operations(uri) == Get(Get(service_doc, <<"p","a","t","h","s">>), uri)

\* the names of the operations under a path
OperationNames(uri) == { Operations(uri).v[i].k : i \in 1..Len(Operations(uri).v) }

\* the entry carries the flag
Flagged(entry, flag) == Get(entry, flag) = Bool(TRUE)

\* C11: in the service document, the path of a resource entry has "get",
\* has "post" exactly when the entry is insertable, "patch" and "put"
\* exactly when it is updatable and "delete" exactly when it is deletable,
\* and no other operation; the path of an action entry has "post" only.
C11_Operations ==
    pc = "done" =>
        \A i \in 1..Len(uri_cache.v) :
            LET uri == uri_cache.v[i].k
                entry == uri_cache.v[i].v
            IN  /\ Has(Get(service_doc, <<"p","a","t","h","s">>), uri)
                /\ IF Flagged(entry, <<"a","c","t","i","o","n">>)
                   THEN OperationNames(uri) = { <<"p","o","s","t">> }
                   ELSE /\ <<"g","e","t">> \in OperationNames(uri)
                        /\ <<"p","o","s","t">> \in OperationNames(uri) <=> Flagged(entry, <<"i","n","s","e","r","t","a","b","l","e">>)
                        /\ <<"p","a","t","c","h">> \in OperationNames(uri) <=> Flagged(entry, <<"u","p","d","a","t","a","b","l","e">>)
                        /\ <<"p","u","t">> \in OperationNames(uri) <=> Flagged(entry, <<"u","p","d","a","t","a","b","l","e">>)
                        /\ <<"d","e","l","e","t","e">> \in OperationNames(uri) <=> Flagged(entry, <<"d","e","l","e","t","a","b","l","e">>)
                        /\ OperationNames(uri) \subseteq
                             { <<"g","e","t">>, <<"p","o","s","t">>, <<"p","a","t","c","h">>, <<"p","u","t">>, <<"d","e","l","e","t","e">> }

\* a service document with an action path and with a resource that can be
\* deleted, and neither created nor updated
C11_Witness ==
    /\ pc = "done"
    /\ \E i, j \in 1..Len(uri_cache.v) :
         /\ Flagged(uri_cache.v[i].v, <<"a","c","t","i","o","n">>)
         /\ ~Flagged(uri_cache.v[j].v, <<"a","c","t","i","o","n">>)
         /\ Flagged(uri_cache.v[j].v, <<"d","e","l","e","t","a","b","l","e">>)
         /\ ~Flagged(uri_cache.v[j].v, <<"i","n","s","e","r","t","a","b","l","e">>)
         /\ ~Flagged(uri_cache.v[j].v, <<"u","p","d","a","t","a","b","l","e">>)
         /\ OperationNames(uri_cache.v[j].k) = { <<"g","e","t">>, <<"d","e","l","e","t","e">> }

\* the schema a response refers to
SchemaRef(response) ==
    Get(Get(Get(Get(response, <<"c","o","n","t","e","n","t">>), <<"a","p","p","l","i","c","a","t","i","o","n","/","j","s","o","n">>), <<"s","c","h","e","m","a">>), <<"$","r","e","f">>)

\* the responses of the operations under a path
ResponsesUnder(uri) ==
    { Get(Operations(uri).v[i].v, <<"r","e","s","p","o","n","s","e","s">>) : i \in 1..Len(Operations(uri).v) }

\* C12: the 200 response of an operation of a resource path refers to the
\* entry's canonical reference; the 200 response of an action path refers
\* to the action's response where one was declared and to
\* #/components/schemas/RedfishError otherwise; every operation has a
\* default response that refers to #/components/schemas/RedfishError.
C12_Responses ==
    pc = "done" =>
        \A i \in 1..Len(uri_cache.v) :
            LET uri == uri_cache.v[i].k
                entry == uri_cache.v[i].v
            IN  \A responses \in ResponsesUnder(uri) :
                    /\ Has(responses, <<"d","e","f","a","u","l","t">>)
                    /\ SchemaRef(Get(responses, <<"d","e","f","a","u","l","t">>))
                         = Str(<<"#","/","c","o","m","p","o","n","e","n","t","s","/","s","c","h","e","m","a","s","/","R","e","d","f","i","s","h","E","r","r","o","r">>)
                    /\ Has(responses, <<"2","0","0">>) =>
                         SchemaRef(Get(responses, <<"2","0","0">>)) =
                           IF ~Flagged(entry, <<"a","c","t","i","o","n">>) THEN Get(entry, <<"r","e","f","e","r","e","n","c","e">>)
                           ELSE IF Get(entry, <<"a","c","t","i","o","n","R","e","s","p","o","n","s","e">>) # None
                           THEN Get(entry, <<"a","c","t","i","o","n","R","e","s","p","o","n","s","e">>)
                           ELSE Str(<<"#","/","c","o","m","p","o","n","e","n","t","s","/","s","c","h","e","m","a","s","/","R","e","d","f","i","s","h","E","r","r","o","r">>)
                    /\ Flagged(entry, <<"a","c","t","i","o","n">>) => Has(responses, <<"2","0","0">>)

\* a service document with an action that declared its response, an action
\* that declared none, and a resource with its get operation
C12_Witness ==
    /\ pc = "done"
    /\ \E i, j, k \in 1..Len(uri_cache.v) :
         /\ Flagged(uri_cache.v[i].v, <<"a","c","t","i","o","n">>)
         /\ Get(uri_cache.v[i].v, <<"a","c","t","i","o","n","R","e","s","p","o","n","s","e">>) # None
         /\ Flagged(uri_cache.v[j].v, <<"a","c","t","i","o","n">>)
         /\ Get(uri_cache.v[j].v, <<"a","c","t","i","o","n","R","e","s","p","o","n","s","e">>) = None
         /\ ~Flagged(uri_cache.v[k].v, <<"a","c","t","i","o","n">>)
         /\ Has(Get(Get(Operations(uri_cache.v[k].k), <<"g","e","t">>), <<"r","e","s","p","o","n","s","e","s">>), <<"2","0","0">>)

-----------------------------------------------------------------------------
(* Properties of the request bodies and of the merge *)

\* check_for_actions goes through the actions of the document and returns
\* without "Malformed action"
ExtractionStep ==
    /\ pc = "uri_info"
    /\ pc' = "strip"
    /\ ~check_for_actions(json_data, Library[input_dir[file]].name, action_cache).raised

\* the items of a sequence
Range(s) == { s[i] : i \in 1..Len(s) }

\* the actions of the root resource of a document, "Oem" left out
ActionNames(doc) ==
    IF Dig(doc, << k_definitions, k_Actions, k_properties >>) = Raised THEN {}
    ELSE { a \in Range(Keys(Dig(doc, << k_definitions, k_Actions, k_properties >>))) :
             a # k_Oem }

\* the name of the definition of an action
ActionDefinition(doc, a) ==
    str_rsplit_last(Dig(doc, << k_definitions, k_Actions, k_properties, a, k_ref >>).v,
                    <<"/">>)

\* the "required" list of a request body, empty where it has none
RequiredOf(body) ==
    IF Has(body, k_required)
    THEN [i \in 1..Len(Get(body, k_required).v) |-> Get(body, k_required).v[i].v]
    ELSE <<>>

\* the parameters flagged as mandatory
Mandatory(parameters) ==
    { parameters.v[i].k : i \in { j \in 1..Len(parameters.v) :
        /\ HasKey(parameters.v[j].v, k_requiredParameter)
        /\ Get(parameters.v[j].v, k_requiredParameter) = Bool(TRUE) } }

\* C15: for every action of the root resource other than "Oem", the
\* definition <ActionDefinition>RequestBody copies the description, the long
\* description and the parameters of the action, and its "required" list
\* holds exactly the parameters whose "requiredParameter" flag is true, in
\* sorted order.
C15_RequiredExact ==
    [][ExtractionStep =>
         \A a \in ActionNames(json_data) :
             LET source == Get(Get(json_data, k_definitions), ActionDefinition(json_data, a))
                 name == ActionDefinition(json_data, a) \o s_RequestBody
                 body == Get(Get(json_data', k_definitions), name)
             IN  /\ Has(Get(json_data', k_definitions), name)
                 /\ Get(body, k_description) = Get(source, k_description)
                 /\ Get(body, k_longDescription) = Get(source, k_longDescription)
                 /\ Get(body, k_properties) = Get(source, k_parameters)
                 /\ Range(RequiredOf(body)) = Mandatory(Get(source, k_parameters))
                 /\ \A i, j \in 1..Len(RequiredOf(body)) :
                      i < j => str_less(RequiredOf(body)[i], RequiredOf(body)[j])]_vars

\* update_uri_info_with_actions has returned
MergeStep ==
    /\ pc = "next"
    /\ pc' = "synth"

\* C16: update_uri_info_with_actions only adds entries of action paths:
\* every entry that has action = false before the call is there after it
\* under the same key with the same fields, and every key that the call
\* adds has action = true.
C16_OnlyAdds ==
    [][MergeStep =>
         /\ \A i \in 1..Len(uri_cache.v) :
              Get(uri_cache.v[i].v, k_action) = Bool(FALSE) =>
                 /\ Has(uri_cache', uri_cache.v[i].k)
                 /\ Get(uri_cache', uri_cache.v[i].k) = uri_cache.v[i].v
         /\ \A j \in 1..Len(uri_cache'.v) :
              ~Has(uri_cache, uri_cache'.v[j].k) =>
                 Get(uri_cache'.v[j].v, k_action) = Bool(TRUE)]_vars

\* the merge has added action paths to a cache that held resource paths
C16_Witness ==
    /\ pc = "synth"
    /\ \E i, j \in 1..Len(uri_cache.v) :
         /\ Get(uri_cache.v[i].v, k_action) = Bool(FALSE)
         /\ Get(uri_cache.v[j].v, k_action) = Bool(TRUE)
         /\ uri_cache.v[j].k = uri_cache.v[i].k \o <<"/","A","c","t","i","o","n","s","/","F","o","o",".","R","e","s","e","t">>

-----------------------------------------------------------------------------
(* The two passes as a function of the listing *)

\* the indexing of one iteration of "for filename in os.listdir( input )"
\* (check_for_uri_info, then check_for_actions) on
\* st = [raised, uri_cache, action_cache]; raised tells that an exception
\* has ended the run.  The rest of the iteration leaves the caches alone
index_document(st, f) ==
    IF st.raised \/ ~ends_with_json(f.name) \/ f.content \in { Unreadable, Malformed }
    THEN st
    ELSE CHOOSE r \in
           { IF u.raised THEN [st EXCEPT !.raised = TRUE]
             ELSE [raised |-> FALSE, uri_cache |-> u.cache,
                   action_cache |->
                     check_for_actions(f.content, f.name, st.action_cache).action_cache] :
             u \in { Fold(LAMBDA acc, kv :
                            IF acc.raised THEN acc
                            ELSE check_for_uri_info_def(acc.cache, kv.k, kv.v),
                          [raised |-> FALSE, cache |-> st.uri_cache],
                          definitions_of(f.content)) } } : TRUE

\* the indexing of the files of the listing l, then
\* update_uri_info_with_actions: [raised, cache], cache the uri_cache
both_passes(l) ==
    CHOOSE r \in
      { IF p1.raised THEN [raised |-> TRUE, cache |-> p1.uri_cache]
        ELSE update_uri_info_with_actions(p1.uri_cache, p1.action_cache) :
        p1 \in { Fold(index_document,
                      [raised |-> FALSE, uri_cache |-> Dict(<<>>),
                       action_cache |-> Dict(<<>>)],
                      Files(l)) } } : TRUE

\* the orders in which the files of the listing l can be taken
Orders(l) == { q \in [1..Len(l) -> Range(l)] : Range(q) = Range(l) }

\* the path templates a document declares
DocumentTemplates(f) ==
    IF ~ends_with_json(f.name) \/ f.content \in { Unreadable, Malformed } THEN {}
    ELSE UNION { Templates(definitions_of(f.content)[i].v) :
                   i \in { j \in 1..Len(definitions_of(f.content)) :
                             Has(definitions_of(f.content)[j].v, k_uris) } }

\* no two definitions of two documents of the listing l declare the same
\* path template
NoSharedTemplate(l) ==
    \A i, j \in 1..Len(l) :
        i # j => DocumentTemplates(Library[l[i]]) \cap DocumentTemplates(Library[l[j]]) = {}

\* the run is the function of its listing
RunIsBothPasses ==
    pc = "synth" => \A r \in { both_passes(input_dir) } :
                        ~r.raised /\ r.cache = uri_cache

\* C19: when no two definitions of two input documents declare the same
\* path template, the URI cache after pass 2 is the same mapping for every
\* order in which the input documents are processed.
C19_OrderIndependent ==
    (pc = "synth" /\ NoSharedTemplate(input_dir)) =>
        \A q \in Orders(input_dir) :
            \A r \in { both_passes(q) } :
                ~r.raised /\ SameValue(r.cache, uri_cache)

\* two documents that declare path templates have
\* been indexed and merged, and the other order gives the entries in another sequence
C19_Witness ==
    /\ pc = "synth"
    /\ NoSharedTemplate(input_dir)
    /\ Len(input_dir) = 2
    /\ \A i \in 1..2 : DocumentTemplates(Library[input_dir[i]]) # {}
    /\ \E q \in Orders(input_dir) : both_passes(q).cache # uri_cache

\* C18: the documents are processed one after the other: a document is
\* taken only at the head of the loop, when check_for_uri_info,
\* check_for_actions, the stripping and the rewrite of the document before
\* it are over, and these come in that order; update_uri_info_with_actions
\* runs only when every document has been taken, and not again after it has
\* run; the service document is made only after that merge.
C18_Sequential ==
    [][/\ file' # file => (pc = "next" /\ file' = file + 1 /\ file < Len(input_dir))
       /\ pc' = "uri_info" => (pc = "uri_info" \/ file' = file + 1)
       /\ pc' = "strip" =>
            (pc = "uri_info" /\ def = Len(definitions_of(json_data)) /\ file' = file)
       /\ pc' = "rewrite" => (pc = "strip" /\ file' = file)
       /\ pc' = "write" => (pc = "rewrite" /\ file' = file)
       /\ pc' = "next" => (pc = "write" \/ file' = file + 1)
       /\ pc' = "synth" => (pc = "next" /\ file = Len(input_dir))
       /\ uri_cache' # uri_cache =>
            (pc = "uri_info" \/ (pc = "next" /\ file = Len(input_dir)))
       /\ pc \in { "synth", "done" } => (pc' = "done" /\ uri_cache' = uri_cache)
       /\ service_doc' # service_doc => pc = "synth"]_vars

\* two documents have been written one after the other, the action paths
\* have been merged and the service document has been made
C18_Witness ==
    /\ pc = "done"
    /\ file = 2
    /\ Has(output, <<"F","o","o",".","y","a","m","l">>)
    /\ Has(output, <<"F","o","o","C","o","l","l","e","c","t","i","o","n",".","y","a","m","l">>)
    /\ \E i \in 1..Len(uri_cache.v) : Get(uri_cache.v[i].v, k_action) = Bool(FALSE)
    /\ service_doc # NoDocument

-----------------------------------------------------------------------------
(* update_object: the fetch loop, one attempt at a time *)

\* the attempt is made again after an OSError of any kind
is_connection_reset_any(outcome) == outcome \in { "reset", "oserror" }

\* e.errno == errno.ECONNRESET
is_connection_reset(outcome) == outcome = "reset"

\* what the network can answer to the request: a number of connection
\* resets, then the outcome final
FetchAnswers ==
    { [url |-> <<"h","t","t","p",":","/","/","w","/","v","1","/","N","e","t",".","j","s","o","n">>, resets |-> r, final |-> f,
       body |-> Schema(<<"N","e","t">>, << KV(<<"N","e","t">>, LinkDefinition) >>)] :
        r \in 0..(retry_count_max + 1), f \in { "ok", "oserror", "badbody" } }

\* the file is not local: json_ref_data = {}, retry_count = 0
InitFetch ==
    /\ input_dir = <<>>
    /\ overwrite = FALSE
    /\ pc = "fetch"
    /\ file = 0
    /\ def = 0
    /\ json_data = NoDocument
    /\ uri_cache = Dict(<<>>)
    /\ action_cache = Dict(<<>>)
    /\ output = StaleOutput
    /\ service_doc = NoDocument
    /\ passes = <<>>
    /\ base_file = NoBase
    /\ network \in FetchAnswers
    /\ retry_count = 0
    /\ attempts = <<>>
    /\ ref_data = Dict(<<>>)

\* one round of "while retry_count < retry_count_max": the request is made;
\* the body is parsed and the loop left, or the OSError is a connection
\* reset and retry_count grows, or it is another one and the loop is left;
\* a body that does not parse raises a ValueError, which nothing catches
Attempt ==
    /\ pc = "fetch"
    /\ retry_count < retry_count_max
    /\ \E outcome \in { attempt_outcome(network, retry_count) } :
           /\ attempts' = Append(attempts, outcome)
           /\ CASE outcome = "ok" ->
                     /\ ref_data' = network.body
                     /\ pc' = "fetched"
                     /\ UNCHANGED retry_count
                [] outcome = "badbody" ->
                     /\ pc' = "raised"
                     /\ UNCHANGED << ref_data, retry_count >>
                [] outcome \notin { "ok", "badbody" } /\ is_connection_reset(outcome) ->
                     /\ retry_count' = retry_count + 1
                     /\ pc' = "fetch"
                     /\ UNCHANGED ref_data
                [] OTHER ->
                     /\ pc' = "fetched"
                     /\ UNCHANGED << ref_data, retry_count >>
    /\ UNCHANGED << input_dir, overwrite, file, def, json_data, uri_cache, action_cache,
                    output, service_doc, passes, base_file, network >>

\* the condition of the while is false: the loop is left
LoopEnds ==
    /\ pc = "fetch"
    /\ retry_count >= retry_count_max
    /\ pc' = "fetched"
    /\ UNCHANGED << input_dir, overwrite, file, def, json_data, uri_cache, action_cache,
                    output, service_doc, passes, base_file, fetch >>

NextFetch == Attempt \/ LoopEnds

\* the loop is a sequence of steps of one thread, which goes on while it can
SpecFetch == InitFetch /\ [][NextFetch]_vars /\ WF_vars(NextFetch)

\* the loop, one attempt at a time, leaves what fetch_loop gives
FetchAgrees ==
    /\ pc = "fetched" => ref_data = fetch_loop(network)
    /\ pc = "raised" => fetch_loop(network) = Raised

\* C17: in the fetch loop an attempt is made after another one only when
\* that one failed with a connection reset (none follows a body that was
\* read or another failure), the attempts for one reference are never more
\* than retry_count_max, which is 20, and the loop comes to an end.
C17_RetryOnReset ==
    /\ [][attempts' # attempts =>
            (attempts = <<>> \/ attempts[Len(attempts)] = "reset")]_vars
    /\ [](Len(attempts) <= retry_count_max /\ retry_count_max = 20)
    /\ <>(pc \in { "fetched", "raised" })

\* the loop has been left after retry_count_max attempts, all of them
\* connection resets
C17_Witness ==
    /\ pc = "fetched"
    /\ Len(attempts) = retry_count_max
    /\ \A i \in 1..Len(attempts) : attempts[i] = "reset"
    /\ ref_data = Dict(<<>>)

-----------------------------------------------------------------------------
(* load_base_file *)

\* the pairs s, sorted by key, with the pair x put in its place
pairs_insert(s, x) ==
    LET before == { i \in 1..Len(s) : ~str_less(x.k, s[i].k) }
        n == IF before = {} THEN 0 ELSE SetMax(before)
    IN  SubSeq(s, 1, n) \o << x >> \o SubSeq(s, n + 1, Len(s))

\* yaml.load of the text yaml.dump wrote: the mappings come back with their
\* keys in sorted order
RECURSIVE yaml_load_dump(_)
yaml_load_dump(n) ==
    CASE IsDict(n) ->
           Dict(Fold(LAMBDA acc, kv : pairs_insert(acc, KV(kv.k, yaml_load_dump(kv.v))),
                     <<>>, n.v))
      [] IsList(n) -> List(SeqOf([i \in 1..Len(n.v) |-> yaml_load_dump(n.v[i])]))
      [] OTHER -> n

AlphaNumerics ==
    { CodePoints[i] : i \in (ord("0")..ord("9")) \cup (ord("A")..ord("Z"))
                             \cup (ord("a")..ord("z")) }

\* the length of the match of "\.v[\d]+_[\d]+_[\d]+\.yaml" at s[p], 0 when
\* there is none
version_suffix(s, p) ==
    LET a == RunLen(s, p + 2, Digits)
        b == RunLen(s, p + a + 3, Digits)
        c == RunLen(s, p + a + b + 4, Digits)
        e == p + a + b + c + 4
    IN  IF /\ p + 1 <= Len(s) /\ s[p] = "." /\ s[p + 1] = "v"
           /\ a >= 1 /\ p + a + 2 <= Len(s) /\ s[p + a + 2] = "_"
           /\ b >= 1 /\ p + a + b + 3 <= Len(s) /\ s[p + a + b + 3] = "_"
           /\ c >= 1 /\ e + 4 <= Len(s) /\ SubSeq(s, e, e + 4) = s_dot_yaml
        THEN a + b + c + 9 ELSE 0

\* re.search( "([A-Za-z0-9]+\.v[\d]+_[\d]+_[\d]+\.yaml)", s ).group( 1 ),
\* NoMatch when the search gives None
versioned_yaml(s) ==
    LET dots == { p \in 2..Len(s) : version_suffix(s, p) > 0 /\ s[p - 1] \in AlphaNumerics }
        p == SetMin(dots)
        start == SetMin({ i \in 1..(p - 1) : \A j \in i..(p - 1) : s[j] \in AlphaNumerics })
    IN  IF dots = {} THEN NoMatch
        ELSE SubSeq(s, start, p + version_suffix(s, p) - 1)

\* no URI extensions
NoExtensions == Dict(<<>>)

\* the schema reference under node[...path]["content"]["application/json"]
schema_ref(node, path) ==
    Dig(node, path \o << <<"c","o","n","t","e","n","t">>, <<"a","p","p","l","i","c","a","t","i","o","n","/","j","s","o","n">>, <<"s","c","h","e","m","a">>, k_ref >>)

\* the branch "This is a resource" on st = [raised, uri_cache, action_cache]
load_resource(st, uri, item, extensions) ==
    LET reference == schema_ref(item, << <<"g","e","t">>, <<"r","e","s","p","o","n","s","e","s">>, <<"2","0","0">> >>)
        posted == schema_ref(item, << <<"p","o","s","t">>, <<"r","e","q","u","e","s","t","B","o","d","y">> >>)
        entry(body) ==
            Dict(<< KV(k_reference, reference),
                    KV(k_requestBody, body),
                    KV(k_insertable, Bool(Has(item, <<"p","o","s","t">>))),
                    KV(k_updatable, Bool(Has(item, <<"p","a","t","c","h">>))),
                    KV(k_deletable, Bool(Has(item, <<"d","e","l","e","t","e">>))),
                    KV(k_action, Bool(FALSE)),
                    KV(k_actionResponse, None),
                    KV(k_type, Str(str_rsplit_last(reference.v, <<"/">>))) >>)
        body == IF Has(item, <<"p","o","s","t">>) THEN posted ELSE reference
        own == Put(st.uri_cache, uri, entry(body))
        type == str_rsplit_last(reference.v, <<"/">>)
    IN  IF reference = Raised \/ (Has(item, <<"p","o","s","t">>) /\ posted = Raised) \/ ~IsStr(reference)
        THEN [st EXCEPT !.raised = TRUE]
        ELSE [st EXCEPT !.uri_cache =
                IF Has(extensions, type)
                THEN Fold(LAMBDA c, ext_uri : Put(c, ext_uri.v, entry(body)),
                          own, Get(extensions, type).v)
                ELSE own]

\* the branch "This is an action"
load_action(st, uri, item) ==
    LET reference == schema_ref(item, << <<"p","o","s","t">>, <<"r","e","q","u","e","s","t","B","o","d","y">> >>)
        response == schema_ref(item, << <<"p","o","s","t">>, <<"r","e","s","p","o","n","s","e","s">>, <<"2","0","0">> >>)
        action == <<"#">> \o str_rsplit_last(uri, <<"/">>)
        yaml_file == versioned_yaml(reference.v)
        entry == Dict(<< KV(k_reference,
                            Str(<<"#">> \o str_rsplit_last(reference.v, <<"#">>))),
                         KV(k_actionResponse,
                            IF response = Str(<<"#","/","c","o","m","p","o","n","e","n","t","s","/","s","c","h","e","m","a","s","/","R","e","d","f","i","s","h","E","r","r","o","r">>)
                            THEN None
                            ELSE Str(<<"#">> \o str_rsplit_last(response.v, <<"#">>))) >>)
    IN  IF reference = Raised \/ response = Raised \/ ~IsStr(reference) \/ ~IsStr(response)
        THEN [st EXCEPT !.raised = TRUE]
        ELSE IF yaml_file = NoMatch THEN [st EXCEPT !.raised = TRUE]
        ELSE [st EXCEPT !.action_cache = cache_action(st.action_cache, yaml_file, action, entry)]

\* load_base_file( filename, extensions ), yaml_data being what the file
\* holds: [raised, uri_cache, action_cache].  A file that cannot be opened
\* or loaded leaves the caches as they are; the exceptions of the loop over
\* the paths are not caught
load_base_file(yaml_data, extensions) ==
    LET empty == [raised |-> FALSE, uri_cache |-> Dict(<<>>), action_cache |-> Dict(<<>>)]
    IN  IF yaml_data \in { Unreadable, Malformed } THEN empty
        ELSE IF ~HasKey(yaml_data, k_paths) \/ ~IsDict(Get(yaml_data, k_paths))
        THEN [empty EXCEPT !.raised = TRUE]
        ELSE Fold(LAMBDA st, kv :
                    IF st.raised THEN st
                    ELSE IF InRaises(kv.v) THEN [st EXCEPT !.raised = TRUE]
                    ELSE IF In(<<"g","e","t">>, kv.v)
                    THEN IF IsDict(kv.v) THEN load_resource(st, kv.k, kv.v, extensions)
                         ELSE [st EXCEPT !.raised = TRUE]
                    ELSE IF IsDict(kv.v) THEN load_action(st, kv.k, kv.v)
                    ELSE [st EXCEPT !.raised = TRUE],
                  empty, Get(yaml_data, k_paths).v)

\* the listings of the run that extends the base document
SecondListings == { << 2 >>, << 5 >> }

\* a run with base_file set to the service document the run before wrote:
\* the caches are made anew and load_base_file fills them in
NewRun ==
    /\ pc = "done"
    /\ base_file = NoBase
    /\ input_dir' \in SecondListings
    /\ base_file' \in { yaml_load_dump(service_doc), Unreadable }
    /\ \E r \in { load_base_file(base_file', NoExtensions) } :
           /\ uri_cache' = r.uri_cache
           /\ action_cache' = r.action_cache
           /\ pc' = IF r.raised THEN "aborted" ELSE "next"
    /\ file' = 0
    /\ def' = 0
    /\ json_data' = NoDocument
    /\ UNCHANGED << overwrite, output, service_doc, passes, fetch >>

NextBase == Next \/ NewRun

SpecBase == Init /\ [][NextBase]_vars

-----------------------------------------------------------------------------
(* Properties of the runs seeded from a base document *)

\* the fields of an entry that the base document carries
BaseFields == { k_reference, k_requestBody, k_insertable, k_updatable, k_deletable }

\* the entry under uri in the cache b is, field by field, the entry e
SameEntry(b, uri, e) ==
    /\ Has(b, uri)
    /\ \A field \in BaseFields : Get(Get(b, uri), field) = Get(e, field)

\* the run was seeded from a base document that was loaded
Seeded == base_file \notin { NoBase, Unreadable }

\* what load_base_file made of the base document
SeededCache == load_base_file(base_file, NoExtensions).uri_cache

\* C13: in a run seeded from a base document, after pass 1 over all the
\* input documents every path seeded from the base maps to the entry that
\* load_base_file made for it (reference, request body reference, verb
\* flags), also when an input definition declares the same path template.
C13_BaseKept ==
    (Seeded /\ pc = "next" /\ file = Len(input_dir)) =>
        \A i \in 1..Len(SeededCache.v) :
            SameEntry(uri_cache, SeededCache.v[i].k, SeededCache.v[i].v)

\* the service document of a cache of resource entries is loaded back
RoundTripStep ==
    /\ pc = "done"
    /\ base_file = NoBase
    /\ base_file' \notin { NoBase, Unreadable }
    /\ \A i \in 1..Len(uri_cache.v) : Get(uri_cache.v[i].v, k_action) = Bool(FALSE)

\* C20: for a URI cache of resource entries, the service document made of
\* it and loaded back by load_base_file without extensions gives, for every
\* path, the same reference, the same request body reference and the same
\* insertable, updatable and deletable flags.
C20_RoundTrip ==
    [][RoundTripStep =>
         /\ pc' = "next"
         /\ Len(uri_cache'.v) = Len(uri_cache.v)
         /\ \A i \in 1..Len(uri_cache.v) :
              SameEntry(uri_cache', uri_cache.v[i].k, uri_cache.v[i].v)]_vars

=============================================================================
